---------------------------- MODULE Spec2Model ----------------------------
(***************************************************************************)
(* A model of the fritzbox_upnp client: the service tree loader            *)
(* (LoadServices, Root.load, Root.loadTr64, Device.fillServices), the SOAP *)
(* action invoker (Action.CallWithArguments with its digest retry, and     *)
(* the older Action.Call that sends basic credentials), the response       *)
(* parser (Action.parseSoapResponse) and the value decoder                 *)
(* (convertResult).                                                        *)
(*                                                                         *)
(* Representation.  Identifiers (service types, action, argument and       *)
(* state variable names, URLs) are strings, compared for equality only.    *)
(* Text that the code scans character by character (element text, the      *)
(* WWW-Authenticate header) is a sequence of one-character strings.        *)
(* A Go pointer that may be nil is a value or NULL.  Back references       *)
(* (Service.Device, Device.root) are identifiers into the heap of the      *)
(* Root and Device objects a load creates.                                 *)
(***************************************************************************)
EXTENDS Integers, Sequences, FiniteSets, TLC

NULL == "nil"

\* a Go pointer, map or interface value that may be nil: Nil, or Some(x)
Nil == <<>>
Some(x) == <<x>>
Deref(p) == p[1]

\* a Go string as text: the empty string is the empty sequence
Str(s) == IF s = "" THEN <<>> ELSE <<s>>

(***************************************************************************)
(* Bounds of the explored inputs.                                          *)
(***************************************************************************)
\* elements inside the response wrapper of a body handed to parseSoapResponse
MaxElems == 2
\* elements inside the response wrapper of a body answered to a Call
MaxCallElems == 2
\* calls made one after the other on the loaded Root
MaxCalls == 2
\* arguments of an action given to IsGetOnly
MaxArgs == 4

--------------------------------------------------------------------------
(***************************************************************************)
(* Small helpers over sequences and functions.                             *)
(***************************************************************************)
Range(s) == {s[i] : i \in DOMAIN s}

\* m[k] = v added to (or overwritten in) the Go map m
MapSet(m, k, v) == [x \in (DOMAIN m) \cup {k} |-> IF x = k THEN v ELSE m[x]]

EmptyMap == [x \in {} |-> NULL]

RECURSIVE Concat(_)
Concat(ss) == IF ss = <<>> THEN <<>> ELSE Head(ss) \o Concat(Tail(ss))

--------------------------------------------------------------------------
(***************************************************************************)
(* strconv.ParseUint(val, 10, 64) and strconv.ParseInt(val, 10, 64).       *)
(* A parsed number is represented by its canonical decimal numeral (no     *)
(* leading zeros), so that 64-bit values stay exact; the range check       *)
(* compares numerals.                                                      *)
(***************************************************************************)
Digits == <<"0", "1", "2", "3", "4", "5", "6", "7", "8", "9">>
IsDigit(c) == \E i \in DOMAIN Digits : Digits[i] = c
DigitVal(c) == (CHOOSE i \in DOMAIN Digits : Digits[i] = c) - 1

\* 2^64 - 1 and 2^63 as numerals
MaxUint64 == <<"1","8","4","4","6","7","4","4","0","7","3","7","0","9","5","5","1","6","1","5">>
MinInt64Mag == <<"9","2","2","3","3","7","2","0","3","6","8","5","4","7","7","5","8","0","8">>

RECURSIVE StripZeros(_)
StripZeros(ds) ==
    IF Len(ds) > 1 /\ Head(ds) = "0" THEN StripZeros(Tail(ds)) ELSE ds

\* numeral a > numeral b, both canonical
RECURSIVE NumGreaterSameLen(_, _)
NumGreaterSameLen(a, b) ==
    IF a = <<>> THEN FALSE
    ELSE IF DigitVal(Head(a)) # DigitVal(Head(b))
         THEN DigitVal(Head(a)) > DigitVal(Head(b))
         ELSE NumGreaterSameLen(Tail(a), Tail(b))

NumGreater(a, b) ==
    \/ Len(a) > Len(b)
    \/ Len(a) = Len(b) /\ NumGreaterSameLen(a, b)

\* a parse to the nominal width of ui4: 32 bits
ParseUint_Width32(val) ==
    IF val = <<>> \/ \E i \in DOMAIN val : ~IsDigit(val[i])
    THEN [err |-> "strconv.ErrSyntax", val |-> NULL]
    ELSE LET n == StripZeros(val)
         IN  IF NumGreater(n, <<"4","2","9","4","9","6","7","2","9","5">>)
             THEN [err |-> "strconv.ErrRange", val |-> NULL]
             ELSE [err |-> NULL, val |-> n]

\* lines 476, 482: the digits of val in base 10, at most 64 bits
ParseUint(val) ==
    IF val = <<>> \/ \E i \in DOMAIN val : ~IsDigit(val[i])
    THEN [err |-> "strconv.ErrSyntax", val |-> NULL]
    ELSE LET n == StripZeros(val)
         IN  IF NumGreater(n, MaxUint64)
             THEN [err |-> "strconv.ErrRange", val |-> NULL]
             ELSE [err |-> NULL, val |-> n]

\* a parse that reads the digits and drops the sign
ParseInt_Magnitude(val) ==
    LET signed == val # <<>> /\ Head(val) \in {"+", "-"}
        body   == IF signed THEN Tail(val) ELSE val
        u      == ParseUint(body)
    IN  IF val = <<>> \/ u.err = "strconv.ErrSyntax"
        THEN [err |-> "strconv.ErrSyntax", val |-> NULL]
        ELSE IF u.err = "strconv.ErrRange" \/ ~NumGreater(MinInt64Mag, u.val)
        THEN [err |-> "strconv.ErrRange", val |-> NULL]
        ELSE [err |-> NULL, val |-> [neg |-> FALSE, mag |-> u.val]]

ParseInt(val) ==
    LET signed == val # <<>> /\ Head(val) \in {"+", "-"}
        neg    == val # <<>> /\ Head(val) = "-"
        body   == IF signed THEN Tail(val) ELSE val
        u      == ParseUint(body)
    IN  IF val = <<>> \/ u.err = "strconv.ErrSyntax"
        THEN [err |-> "strconv.ErrSyntax", val |-> NULL]
        ELSE IF \/ u.err = "strconv.ErrRange"
                \/ (~neg /\ ~NumGreater(MinInt64Mag, u.val))
                \/ (neg /\ NumGreater(u.val, MinInt64Mag))
        THEN [err |-> "strconv.ErrRange", val |-> NULL]
        ELSE [err |-> NULL,
              val |-> [neg |-> neg /\ u.val # <<"0">>, mag |-> u.val]]

\* a decoder that also takes the word true for a true boolean
convertResult_TrueWord(val, arg) ==
    IF arg.StateVariable = Nil
    THEN [panic |-> TRUE, err |-> Nil, val |-> Nil]
    ELSE LET dt == Deref(arg.StateVariable).DataType
             ok(v) == [panic |-> FALSE, err |-> Nil, val |-> Some(v)]
             ko(e) == [panic |-> FALSE, err |-> Some(e), val |-> Nil]
         IN  CASE dt = "string" -> ok([type |-> "string", v |-> val])
               [] dt = "boolean" ->
                     ok([type |-> "bool",
                         v |-> (val \in {<<"1">>, <<"t", "r", "u", "e">>})])
               [] dt \in {"ui1", "ui2", "ui4"} ->
                     LET r == ParseUint(val)
                     IN  IF r.err # NULL
                         THEN ko([kind |-> "decode", msg |-> <<Str(r.err)>>])
                         ELSE ok([type |-> "uint64", v |-> r.val])
               [] dt = "i4" ->
                     LET r == ParseInt(val)
                     IN  IF r.err # NULL
                         THEN ko([kind |-> "decode", msg |-> <<Str(r.err)>>])
                         ELSE ok([type |-> "int64", v |-> r.val])
               [] dt \in {"dateTime", "uuid"} -> ok([type |-> "string", v |-> val])
               [] OTHER -> ko([kind |-> "unknown datatype", msg |-> <<Str(dt), val>>])

\* a decoder that hands an i4 value on as the int strconv would give for a
\* 32-bit parse, not widened to int64
convertResult_PlainInt(val, arg) ==
    IF arg.StateVariable = Nil
    THEN [panic |-> TRUE, err |-> Nil, val |-> Nil]
    ELSE LET dt == Deref(arg.StateVariable).DataType
             ok(v) == [panic |-> FALSE, err |-> Nil, val |-> Some(v)]
             ko(e) == [panic |-> FALSE, err |-> Some(e), val |-> Nil]
         IN  CASE dt = "string" -> ok([type |-> "string", v |-> val])
               [] dt = "boolean" -> ok([type |-> "bool", v |-> (val = <<"1">>)])
               [] dt \in {"ui1", "ui2", "ui4"} ->
                     LET r == ParseUint(val)
                     IN  IF r.err # NULL
                         THEN ko([kind |-> "decode", msg |-> <<Str(r.err)>>])
                         ELSE ok([type |-> "uint64", v |-> r.val])
               [] dt = "i4" ->
                     LET r == ParseInt(val)
                     IN  IF r.err # NULL
                         THEN ko([kind |-> "decode", msg |-> <<Str(r.err)>>])
                         ELSE ok([type |-> "int", v |-> r.val])
               [] dt \in {"dateTime", "uuid"} -> ok([type |-> "string", v |-> val])
               [] OTHER -> ko([kind |-> "unknown datatype", msg |-> <<Str(dt), val>>])

--------------------------------------------------------------------------
(***************************************************************************)
(* convertResult: the declared data type selects the Go type of the value. *)
(* The argument's StateVariable pointer is dereferenced without a nil      *)
(* check, so an unresolved argument panics.                                *)
(***************************************************************************)
convertResult(val, arg) ==
    IF arg.StateVariable = Nil
    THEN [panic |-> TRUE, err |-> Nil, val |-> Nil]
    ELSE LET dt == Deref(arg.StateVariable).DataType
             ok(v) == [panic |-> FALSE, err |-> Nil, val |-> Some(v)]
             ko(e) == [panic |-> FALSE, err |-> Some(e), val |-> Nil]
         IN  CASE dt = "string" -> ok([type |-> "string", v |-> val])
               [] dt = "boolean" -> ok([type |-> "bool", v |-> (val = <<"1">>)])
               [] dt \in {"ui1", "ui2", "ui4"} ->
                     LET r == ParseUint(val)
                     IN  IF r.err # NULL
                         THEN ko([kind |-> "decode", msg |-> <<Str(r.err)>>])
                         ELSE ok([type |-> "uint64", v |-> r.val])
               [] dt = "i4" ->
                     LET r == ParseInt(val)
                     IN  IF r.err # NULL
                         THEN ko([kind |-> "decode", msg |-> <<Str(r.err)>>])
                         ELSE ok([type |-> "int64", v |-> r.val])
               [] dt \in {"dateTime", "uuid"} -> ok([type |-> "string", v |-> val])
               [] OTHER -> ko([kind |-> "unknown datatype", msg |-> <<Str(dt), val>>])

--------------------------------------------------------------------------
(***************************************************************************)
(* The documents the device serves.  A description document decodes into   *)
(* a Device tree (xml tags deviceType, serviceList>service,                *)
(* deviceList>device); an SCPD document decodes into an scpdRoot           *)
(* (actionList>action, serviceStateTable>stateVariable).                   *)
(***************************************************************************)
SvcDecl(type, control, scpd) ==
    [ServiceType |-> type, ControlUrl |-> control, SCPDUrl |-> scpd]

ArgDecl(name, dir, rel) ==
    [Name |-> name, Direction |-> dir, RelatedStateVariable |-> rel,
     StateVariable |-> Nil]

SVar(name, type) == [Name |-> name, DataType |-> type]

\* the zero value xml.Decoder.Decode leaves when the document holds none of the tags
EmptyDevice == [DeviceType |-> "", Services |-> <<>>, Devices |-> <<>>]
EmptyScpd == [Actions |-> <<>>, StateVariables |-> <<>>]

IgdDoc ==
    [DeviceType |-> "InternetGatewayDevice",
     Services |-> << SvcDecl("WANCommonInterfaceConfig",
                             "/igdupnp/control/WANCommonIFC1", "/igdicfgSCPD.xml") >>,
     Devices |-> << [DeviceType |-> "WANDevice",
                     Services |-> << SvcDecl("WANIPConnection",
                                             "/igdupnp/control/WANIPConn1",
                                             "/igdconnSCPD.xml") >>,
                     Devices |-> <<>>] >>]

\* a primary description that declares one service type three times: twice
\* in the root device and once in the first of two child devices
IgdDocTwice ==
    [DeviceType |-> "InternetGatewayDevice",
     Services |-> << SvcDecl("WANIPConnection", "/igdupnp/control/WANIPConn1",
                             "/igdconnSCPD.xml"),
                     SvcDecl("WANIPConnection", "/igdupnp/control/WANIPConn2",
                             "/igdconnSCPD.xml") >>,
     Devices |-> << [DeviceType |-> "WANDevice",
                     Services |-> << SvcDecl("WANIPConnection",
                                             "/igdupnp/control/WANIPConn3",
                                             "/igdconnSCPD.xml") >>,
                     Devices |-> <<>>],
                    [DeviceType |-> "WANConnectionDevice",
                     Services |-> << SvcDecl("WANDSLLinkConfig",
                                             "/igdupnp/control/WANDSLLinkC1",
                                             "/igddslSCPD.xml") >>,
                     Devices |-> <<>>] >>]

Tr64Doc ==
    [DeviceType |-> "TR64Device",
     Services |-> << SvcDecl("DeviceInfo", "/upnp/control/deviceinfo",
                             "/deviceinfoSCPD.xml"),
                     SvcDecl("WANCommonInterfaceConfig",
                             "/upnp/control/wancommonifconfig1",
                             "/wancommonifconfigSCPD.xml") >>,
     Devices |-> <<>>]

ScpdDoc(url) ==
    CASE url = "/igdicfgSCPD.xml" ->
           [Actions |-> << [Name |-> "GetFoo",
                            Arguments |-> <<ArgDecl("NewFoo", "out", "Foo")>>],
                           [Name |-> "GetOld",
                            Arguments |-> <<ArgDecl("NewOld", "out", "Foo")>>] >>,
            StateVariables |-> <<SVar("Foo", "string")>>]
      [] url = "/igdconnSCPD.xml" ->
           [Actions |-> << [Name |-> "GetEntry",
                            Arguments |-> <<ArgDecl("NewIndex", "in", "Idx"),
                                            ArgDecl("NewUp", "out", "Up")>>] >>,
            StateVariables |-> <<SVar("Idx", "ui2"), SVar("Up", "boolean")>>]
      [] url = "/deviceinfoSCPD.xml" ->
           [Actions |-> << [Name |-> "GetInfo",
                            Arguments |-> <<ArgDecl("NewCnt", "out", "Cnt"),
                                            ArgDecl("NewTotal", "out", "Name"),
                                            ArgDecl("NewFoo", "out", "Name")>>],
                           [Name |-> "GetGhost",
                            Arguments |-> <<ArgDecl("NewFoo", "out", "Ghost")>>] >>,
            StateVariables |-> <<SVar("Cnt", "ui4"), SVar("Name", "string")>>]
      [] url = "/wancommonifconfigSCPD.xml" ->
           [Actions |-> << [Name |-> "GetFoo",
                            Arguments |-> <<ArgDecl("NewFoo", "out", "Foo")>>] >>,
            StateVariables |-> <<SVar("Foo", "string")>>]
      [] OTHER -> EmptyScpd

\* what a GET of a path may be answered with: a status and a body; the body
\* either fails xml decoding ("bad") or decodes into doc
Statuses == {200, 404}
GoodBody(doc) == [xml |-> "ok", doc |-> Some(doc)]
BadBody == [xml |-> "bad", doc |-> Nil]

DescBodies(path) ==
    {BadBody, GoodBody(EmptyDevice)}
    \cup (IF path = "/igddesc.xml"
          THEN {GoodBody(IgdDoc), GoodBody(IgdDocTwice)}
          ELSE {GoodBody(Tr64Doc)})

ScpdBodies(path) == {BadBody, GoodBody(EmptyScpd), GoodBody(ScpdDoc(path))}

--------------------------------------------------------------------------
(***************************************************************************)
(* Device.fillServices.                                                    *)
(***************************************************************************)
\* the state variable an argument resolves to: the last one of the list whose
\* name matches (the loop has no break), nil when none does
ResolveStateVariable(arg, svars) ==
    LET hits == {i \in DOMAIN svars : svars[i].Name = arg.RelatedStateVariable}
    IN  IF hits = {} THEN arg.StateVariable
        ELSE Some(svars[CHOOSE i \in hits : \A j \in hits : j <= i])

\* a Go map built by assigning m[key(x)] = x for the elements of a list in order
RECURSIVE MapOfList(_, _)
MapOfList(list, m) ==
    IF list = <<>> THEN m
    ELSE MapOfList(Tail(list), MapSet(m, Head(list).Name, Head(list)))

\* lines 237-250: one action of a fetched SCPD, with its back reference to
\* the service object sid, its resolved arguments and its argument map
FillAction(a, sid, svars) ==
    LET args == [i \in DOMAIN a.Arguments |->
                    [a.Arguments[i] EXCEPT
                       !.StateVariable = ResolveStateVariable(a.Arguments[i], svars)]]
    IN  [Name |-> a.Name,
         Arguments |-> args,
         ArgumentMap |-> MapOfList(args, EmptyMap),
         service |-> sid]

\* lines 231-250: the service object s (identified by sid) populated from scpd
FillService(s, sid, scpd) ==
    LET byName == MapOfList(scpd.Actions, EmptyMap)
    IN  [s EXCEPT
           !.Actions = Some([n \in DOMAIN byName |->
                               FillAction(byName[n], sid, scpd.StateVariables)]),
           !.StateVariables = scpd.StateVariables]

\* a walk that descends into the child devices before it loads the services
\* of the device itself
RECURSIVE DeviceWalk_ChildrenFirst(_, _, _)
DeviceWalk_ChildrenFirst(d, rootId, path) ==
    LET dev == [root |-> rootId, path |-> path]
    IN  <<[kind |-> "device", dev |-> dev]>>
        \o Concat([i \in DOMAIN d.Devices |->
                      DeviceWalk_ChildrenFirst(d.Devices[i], rootId, Append(path, i))])
        \o [i \in DOMAIN d.Services |->
               [kind |-> "service", dev |-> dev, idx |-> i]]

\* the order in which fillServices works through a device tree: the device
\* itself (d.root = r), its services in document order, then each child
RECURSIVE DeviceWalk(_, _, _)
DeviceWalk(d, rootId, path) ==
    LET dev == [root |-> rootId, path |-> path]
    IN  <<[kind |-> "device", dev |-> dev]>>
        \o [i \in DOMAIN d.Services |->
               [kind |-> "service", dev |-> dev, idx |-> i]]
        \o Concat([i \in DOMAIN d.Devices |->
                      DeviceWalk(d.Devices[i], rootId, Append(path, i))])

\* the Service objects xml decoding allocates for the tree of rootId: one per
\* declaration, not yet populated
RECURSIVE DecodedServices(_, _, _)
DecodedServices(d, rootId, path) ==
    LET dev == [root |-> rootId, path |-> path]
        RECURSIVE Kids(_)
        Kids(i) == IF i > Len(d.Devices) THEN {}
                   ELSE DecodedServices(d.Devices[i], rootId, Append(path, i))
                        \cup Kids(i + 1)
    IN  {<<[dev |-> dev, idx |-> i],
           [ServiceType |-> d.Services[i].ServiceType,
            ControlUrl |-> d.Services[i].ControlUrl,
            SCPDUrl |-> d.Services[i].SCPDUrl,
            Device |-> Nil, Actions |-> Nil, StateVariables |-> <<>>]>>
         : i \in DOMAIN d.Services} \cup Kids(1)

--------------------------------------------------------------------------
(***************************************************************************)
(* LoadServices, as the steps between its HTTP GETs.  A load state L holds *)
(* the heap (the Root objects, the Service objects, the Device.root back   *)
(* references) and the position of the walk.                               *)
(***************************************************************************)
NewRoot(baseurl, username, password) ==
    [BaseUrl |-> baseurl, Username |-> username, Password |-> password,
     Device |-> EmptyDevice, Services |-> Nil]

DescPath(rootId) == IF rootId = "root" THEN "/igddesc.xml" ELSE "/tr64desc.xml"

\* lines 503-509 and 166: the Root is built and the primary description requested
LoadServicesBegin(baseurl, username, password) ==
    [pc |-> "desc", which |-> "root",
     roots |-> MapSet(EmptyMap, "root", NewRoot(baseurl, username, password)),
     svcs |-> EmptyMap, devRoot |-> EmptyMap,
     work |-> <<>>, visited |-> <<>>,
     url |-> baseurl \o DescPath("root"),
     ret |-> Nil]

\* a load that falls back to the primary Root when the secondary tree fails
LoadFails_FallBack(L, e) ==
    IF L.which = "rootTr64"
    THEN [L EXCEPT !.pc = "done", !.url = "",
                   !.ret = Some([root |-> Some("root"), err |-> Nil])]
    ELSE [L EXCEPT !.pc = "done", !.url = "",
                   !.ret = Some([root |-> Nil, err |-> Some(e)])]

\* an error returned by load, loadTr64 or fillServices: LoadServices returns nil
LoadFails(L, e) ==
    [L EXCEPT !.pc = "done", !.url = "",
              !.ret = Some([root |-> Nil, err |-> Some(e)])]

\* a merge that keeps the primary entry of a type both trees declare
MergeServices_KeepPrimary(rootMap, tr64Map) ==
    [k \in (DOMAIN rootMap) \cup (DOMAIN tr64Map) |->
        IF k \in DOMAIN rootMap THEN rootMap[k] ELSE tr64Map[k]]

\* lines 525-529: the secondary services are copied over the primary map
MergeServices(rootMap, tr64Map) ==
    [k \in (DOMAIN rootMap) \cup (DOMAIN tr64Map) |->
        IF k \in DOMAIN tr64Map THEN tr64Map[k] ELSE rootMap[k]]

\* a load that builds the secondary Root without the username and password
RECURSIVE Advance_Tr64WithoutLogin(_)
Advance_Tr64WithoutLogin(L) ==
    IF L.work = <<>>
    THEN IF L.which = "root"
         THEN [L EXCEPT
                 !.pc = "desc", !.which = "rootTr64",
                 !.roots = MapSet(L.roots, "rootTr64",
                                  NewRoot(L.roots["root"].BaseUrl, "", "")),
                 !.url = L.roots["root"].BaseUrl \o DescPath("rootTr64")]
         ELSE [L EXCEPT
                 !.pc = "done", !.url = "",
                 !.roots["root"].Services =
                     Some(MergeServices(Deref(L.roots["root"].Services),
                                        Deref(L.roots["rootTr64"].Services))),
                 !.ret = Some([root |-> Some("root"), err |-> Nil])]
    ELSE LET it == Head(L.work)
         IN  IF it.kind = "device"
             THEN Advance_Tr64WithoutLogin(
                     [L EXCEPT
                        !.work = Tail(L.work),
                        !.visited = Append(L.visited, it.dev),
                        !.devRoot = MapSet(L.devRoot, it.dev, L.which)])
             ELSE LET sid == [dev |-> it.dev, idx |-> it.idx]
                  IN  [L EXCEPT
                         !.pc = "scpd",
                         !.svcs[sid].Device = Some(it.dev),
                         !.url = L.roots[L.which].BaseUrl \o L.svcs[sid].SCPDUrl]

\* fillServices up to its next http.Get: devices are entered (d.root = r), the
\* next service gets its Device and its SCPD is requested; at the end of the
\* primary tree the secondary Root is built and its description requested, at
\* the end of the secondary tree the maps are merged and the Root returned
RECURSIVE Advance(_)
Advance(L) ==
    IF L.work = <<>>
    THEN IF L.which = "root"
         THEN [L EXCEPT
                 !.pc = "desc", !.which = "rootTr64",
                 !.roots = MapSet(L.roots, "rootTr64",
                                  NewRoot(L.roots["root"].BaseUrl,
                                          L.roots["root"].Username,
                                          L.roots["root"].Password)),
                 !.url = L.roots["root"].BaseUrl \o DescPath("rootTr64")]
         ELSE [L EXCEPT
                 !.pc = "done", !.url = "",
                 !.roots["root"].Services =
                     Some(MergeServices(Deref(L.roots["root"].Services),
                                        Deref(L.roots["rootTr64"].Services))),
                 !.ret = Some([root |-> Some("root"), err |-> Nil])]
    ELSE LET it == Head(L.work)
         IN  IF it.kind = "device"
             THEN Advance([L EXCEPT
                             !.work = Tail(L.work),
                             !.visited = Append(L.visited, it.dev),
                             !.devRoot = MapSet(L.devRoot, it.dev, L.which)])
             ELSE LET sid == [dev |-> it.dev, idx |-> it.idx]
                  IN  [L EXCEPT
                         !.pc = "scpd",
                         !.svcs[sid].Device = Some(it.dev),
                         !.url = L.roots[L.which].BaseUrl \o L.svcs[sid].SCPDUrl]

\* lines 170-184 (load) and 192-206 (loadTr64): the description answered by
\* resp; its status is never read
OnDescription(L, resp) ==
    IF resp.body.xml = "bad"
    THEN LoadFails(L, [kind |-> "xml"])
    ELSE LET doc == Deref(resp.body.doc)
             new == DecodedServices(doc, L.which, <<>>)
         IN  Advance([L EXCEPT
                        !.roots[L.which].Device = doc,
                        !.roots[L.which].Services = Some(EmptyMap),
                        !.svcs = [sid \in (DOMAIN L.svcs) \cup {p[1] : p \in new} |->
                                     IF sid \in DOMAIN L.svcs THEN L.svcs[sid]
                                     ELSE (CHOOSE p \in new : p[1] = sid)[2]],
                        !.work = DeviceWalk(doc, L.which, <<>>)])

\* a walk that leaves out a service whose SCPD does not decode and goes on
OnScpd_SkipUndecodable(L, resp) ==
    IF resp.body.xml = "bad"
    THEN Advance([L EXCEPT !.work = Tail(L.work)])
    ELSE LET it == Head(L.work)
             sid == [dev |-> it.dev, idx |-> it.idx]
             s == FillService(L.svcs[sid], sid, Deref(resp.body.doc))
         IN  Advance([L EXCEPT
                        !.svcs[sid] = s,
                        !.roots[L.which].Services =
                            Some(MapSet(Deref(L.roots[L.which].Services),
                                        s.ServiceType, sid)),
                        !.work = Tail(L.work)])

\* a walk that keeps the first Service loaded for a service type
OnScpd_KeepFirst(L, resp) ==
    IF resp.body.xml = "bad"
    THEN LoadFails(L, [kind |-> "xml"])
    ELSE LET it == Head(L.work)
             sid == [dev |-> it.dev, idx |-> it.idx]
             s == FillService(L.svcs[sid], sid, Deref(resp.body.doc))
             m == Deref(L.roots[L.which].Services)
         IN  Advance([L EXCEPT
                        !.svcs[sid] = s,
                        !.roots[L.which].Services =
                            Some(IF s.ServiceType \in DOMAIN m THEN m
                                 ELSE MapSet(m, s.ServiceType, sid)),
                        !.work = Tail(L.work)])

\* lines 217-252: the SCPD of the service at the head of the walk answered by
\* resp; its status is never read
OnScpd(L, resp) ==
    IF resp.body.xml = "bad"
    THEN LoadFails(L, [kind |-> "xml"])
    ELSE LET it == Head(L.work)
             sid == [dev |-> it.dev, idx |-> it.idx]
             s == FillService(L.svcs[sid], sid, Deref(resp.body.doc))
         IN  Advance([L EXCEPT
                        !.svcs[sid] = s,
                        !.roots[L.which].Services =
                            Some(MapSet(Deref(L.roots[L.which].Services),
                                        s.ServiceType, sid)),
                        !.work = Tail(L.work)])

\* lines 170-172, 192-194, 217-219: http.Get returns an error
OnGetError(L) == LoadFails(L, [kind |-> "transport"])

\* the path part of the URL a load state waits on
PathOf(L) ==
    IF L.pc = "desc" THEN DescPath(L.which)
    ELSE L.svcs[[dev |-> Head(L.work).dev, idx |-> Head(L.work).idx]].SCPDUrl

\* a load in which every GET is answered 200 with the document of its path
RECURSIVE RunLoad(_)
RunLoad(L) ==
    IF L.pc = "done" THEN L
    ELSE IF L.pc = "desc"
    THEN RunLoad(OnDescription(L, [status |-> 200,
             body |-> GoodBody(IF L.which = "root" THEN IgdDoc ELSE Tr64Doc)]))
    ELSE RunLoad(OnScpd(L, [status |-> 200, body |-> GoodBody(ScpdDoc(PathOf(L)))]))

--------------------------------------------------------------------------
(***************************************************************************)
(* Response bodies as xml.Decoder.Token sees them: the tokens it returns,  *)
(* then io.EOF (eof) or a syntax error.  A body is built from elements     *)
(* inside one wrapper element; a malformed or truncated document is a      *)
(* proper prefix of the tokens followed by the syntax error.               *)
(***************************************************************************)
StartElement(n) == [kind |-> "StartElement", name |-> n, text |-> <<>>]
EndElement(n) == [kind |-> "EndElement", name |-> n, text |-> <<>>]
CharData(t) == [kind |-> "CharData", name |-> "", text |-> t]

ElemNames == {"NewFoo", "NewCnt", "NewTotal", "NewIndex", "NewUp"}
Texts == {<<"1">>, <<"b", "a", "r">>}

\* <n/> or <n></n>, <n>text</n>, <n><NewFoo/></n>
Elems ==
    {[name |-> n, content |-> c, text |-> <<>>] :
        n \in ElemNames, c \in {"empty", "child"}}
    \cup {[name |-> n, content |-> "text", text |-> t] : n \in ElemNames, t \in Texts}

ElemTokens(e) ==
    CASE e.content = "empty" -> <<StartElement(e.name), EndElement(e.name)>>
      [] e.content = "text" ->
           <<StartElement(e.name), CharData(e.text), EndElement(e.name)>>
      [] e.content = "child" ->
           <<StartElement(e.name), StartElement("NewFoo"), EndElement("NewFoo"),
             EndElement(e.name)>>

DocTokens(elems) ==
    <<StartElement("Response")>>
    \o Concat([i \in DOMAIN elems |-> ElemTokens(elems[i])])
    \o <<EndElement("Response")>>

SeqsUpTo(S, n) == UNION {[1..k -> S] : k \in 0..n}

\* the document of the elements es as the decoder returns it: whole
\* (cut = number of its tokens), or cut short by a syntax error after cut tokens
BodyOf(es, cut) ==
    LET d == DocTokens(es)
    IN  IF cut >= Len(d) THEN [tokens |-> d, eof |-> TRUE]
        ELSE [tokens |-> SubSeq(d, 1, cut), eof |-> FALSE]

\* a body without any token: io.EOF at once
NoBody == [tokens |-> <<>>, eof |-> TRUE]

\* the bodies of at most n elements of E
BodiesUpTo(E, n) ==
    {NoBody} \cup UNION {{BodyOf(es, cut) : cut \in 0..Len(DocTokens(es))}
                            : es \in SeqsUpTo(E, n)}

--------------------------------------------------------------------------
(***************************************************************************)
(* Action.parseSoapResponse.                                               *)
(***************************************************************************)
ErrInvalidSOAPResponse == [kind |-> "invalid SOAP response"]

Returns(res, err) == [res |-> res, err |-> err, panic |-> FALSE]
Panics == [res |-> Nil, err |-> Nil, panic |-> TRUE]

\* a Result indexed by the name of the argument
RECURSIVE parseSoapResponseFrom_ByArgName(_, _, _, _)
parseSoapResponseFrom_ByArgName(a, body, i, res) ==
    IF i > Len(body.tokens)
    THEN IF body.eof THEN Returns(Some(res), Nil)
         ELSE Returns(Nil, Some([kind |-> "xml syntax"]))
    ELSE LET t == body.tokens[i]
         IN  IF t.kind = "StartElement" /\ t.name \in DOMAIN a.ArgumentMap
             THEN LET arg == a.ArgumentMap[t.name]
                  IN  IF i + 1 > Len(body.tokens)
                      THEN Returns(Nil, Some([kind |->
                               IF body.eof THEN "EOF" ELSE "xml syntax"]))
                      ELSE LET t2 == body.tokens[i + 1]
                           IN  IF t2.kind \notin {"EndElement", "CharData"}
                               THEN Returns(Nil, Some(ErrInvalidSOAPResponse))
                               ELSE LET val == IF t2.kind = "EndElement" THEN <<>>
                                               ELSE t2.text
                                        c == convertResult(val, arg)
                                    IN  IF c.panic THEN Panics
                                        ELSE IF c.err # Nil THEN Returns(Nil, c.err)
                                        ELSE parseSoapResponseFrom_ByArgName(
                                                 a, body, i + 2,
                                                 MapSet(res, arg.Name, Deref(c.val)))
             ELSE parseSoapResponseFrom_ByArgName(a, body, i + 1, res)

\* a parser that leaves an element without text out of the Result
RECURSIVE parseSoapResponseFrom_SkipEmpty(_, _, _, _)
parseSoapResponseFrom_SkipEmpty(a, body, i, res) ==
    IF i > Len(body.tokens)
    THEN IF body.eof THEN Returns(Some(res), Nil)
         ELSE Returns(Nil, Some([kind |-> "xml syntax"]))
    ELSE LET t == body.tokens[i]
         IN  IF t.kind = "StartElement" /\ t.name \in DOMAIN a.ArgumentMap
             THEN LET arg == a.ArgumentMap[t.name]
                  IN  IF i + 1 > Len(body.tokens)
                      THEN Returns(Nil, Some([kind |->
                               IF body.eof THEN "EOF" ELSE "xml syntax"]))
                      ELSE LET t2 == body.tokens[i + 1]
                           IN  IF t2.kind \notin {"EndElement", "CharData"}
                               THEN Returns(Nil, Some(ErrInvalidSOAPResponse))
                               ELSE IF t2.kind = "EndElement"
                               THEN parseSoapResponseFrom_SkipEmpty(a, body, i + 2, res)
                               ELSE LET val == t2.text
                                        c == convertResult(val, arg)
                                    IN  IF c.panic THEN Panics
                                        ELSE IF c.err # Nil THEN Returns(Nil, c.err)
                                        ELSE parseSoapResponseFrom_SkipEmpty(a, body, i + 2,
                                                 MapSet(res,
                                                        Deref(arg.StateVariable).Name,
                                                        Deref(c.val)))
             ELSE parseSoapResponseFrom_SkipEmpty(a, body, i + 1, res)

\* the loop of lines 427-464 from token i on, res being the map built so far
RECURSIVE parseSoapResponseFrom(_, _, _, _)
parseSoapResponseFrom(a, body, i, res) ==
    IF i > Len(body.tokens)
    THEN IF body.eof THEN Returns(Some(res), Nil)
         ELSE Returns(Nil, Some([kind |-> "xml syntax"]))
    ELSE LET t == body.tokens[i]
         IN  IF t.kind = "StartElement" /\ t.name \in DOMAIN a.ArgumentMap
             THEN LET arg == a.ArgumentMap[t.name]
                  IN  IF i + 1 > Len(body.tokens)
                      THEN Returns(Nil, Some([kind |->
                               IF body.eof THEN "EOF" ELSE "xml syntax"]))
                      ELSE LET t2 == body.tokens[i + 1]
                           IN  IF t2.kind \notin {"EndElement", "CharData"}
                               THEN Returns(Nil, Some(ErrInvalidSOAPResponse))
                               ELSE LET val == IF t2.kind = "EndElement" THEN <<>>
                                               ELSE t2.text
                                        c == convertResult(val, arg)
                                    IN  IF c.panic THEN Panics
                                        ELSE IF c.err # Nil THEN Returns(Nil, c.err)
                                        ELSE parseSoapResponseFrom(a, body, i + 2,
                                                 MapSet(res,
                                                        Deref(arg.StateVariable).Name,
                                                        Deref(c.val)))
             ELSE parseSoapResponseFrom(a, body, i + 1, res)

parseSoapResponse(a, body) == parseSoapResponseFrom(a, body, 1, EmptyMap)

--------------------------------------------------------------------------
(***************************************************************************)
(* Header text.  A Go string that the code splits and trims is a sequence  *)
(* of atoms: the separators it looks for (comma, equals sign, quote,       *)
(* space) one atom each, any other run of characters one atom.             *)
(***************************************************************************)
QUOTE == "\""

\* strings.Split(s, sep): the pieces between the occurrences of sep
RECURSIVE SplitFrom(_, _, _)
SplitFrom(s, sep, cur) ==
    IF s = <<>> THEN <<cur>>
    ELSE IF Head(s) = sep THEN <<cur>> \o SplitFrom(Tail(s), sep, <<>>)
    ELSE SplitFrom(Tail(s), sep, Append(cur, Head(s)))

Split(s, sep) == SplitFrom(s, sep, <<>>)

\* strings.SplitN(s, sep, 2): cut at the first occurrence of sep only
SplitN2(s, sep) ==
    LET at == {i \in DOMAIN s : s[i] = sep}
    IN  IF at = {} THEN <<s>>
        ELSE LET i == CHOOSE j \in at : \A k \in at : j <= k
             IN  <<SubSeq(s, 1, i - 1), SubSeq(s, i + 1, Len(s))>>

\* strings.Trim(s, cutset): leading and trailing atoms of the cutset removed
RECURSIVE TrimLeft(_, _)
TrimLeft(s, cutset) ==
    IF s # <<>> /\ Head(s) \in cutset THEN TrimLeft(Tail(s), cutset) ELSE s

RECURSIVE TrimRight(_, _)
TrimRight(s, cutset) ==
    IF s # <<>> /\ s[Len(s)] \in cutset
    THEN TrimRight(SubSeq(s, 1, Len(s) - 1), cutset) ELSE s

Trim(s, cutset) == TrimRight(TrimLeft(s, cutset), cutset)

HasPrefix(s, prefix) ==
    Len(s) >= Len(prefix) /\ SubSeq(s, 1, Len(prefix)) = prefix

\* strings.Join(parts, sep)
RECURSIVE Join(_, _)
Join(parts, sep) ==
    IF parts = <<>> THEN <<>>
    ELSE IF Len(parts) = 1 THEN parts[1]
    ELSE parts[1] \o <<sep>> \o Join(Tail(parts), sep)

\* fmt.Sprintf("%x", md5.Sum(x)): the hash is kept abstract
MD5Hex(x) == <<"md5(">> \o x \o <<")">>

\* d[k] of a Go map[string]string: the empty string when k is missing
Lookup(d, k) == IF <<k>> \in DOMAIN d THEN d[<<k>>] ELSE <<>>

--------------------------------------------------------------------------
(***************************************************************************)
(* Action.getDigestAuthHeader.  cnonce is the 8 random bytes in hex.       *)
(***************************************************************************)
\* lines 383-389: the directives of the challenge, later ones overwriting
RECURSIVE Directives(_, _)
Directives(kvs, d) ==
    IF kvs = <<>> THEN d
    ELSE LET parts == SplitN2(Head(kvs), "=")
         IN  IF Len(parts) # 2 THEN Directives(Tail(kvs), d)
             ELSE Directives(Tail(kvs),
                             MapSet(d, Trim(parts[1], {QUOTE, " "}),
                                       Trim(parts[2], {QUOTE, " "})))

\* a nonce count that is not the first
NonceCount_Second == <<"00000002">>

\* lines 410-411: nCounter := 1, formatted %08x
NonceCount == <<"00000001">>

getDigestAuthHeader(controlUrl, wwwAuth, username, password, cnonce) ==
    IF ~HasPrefix(wwwAuth, <<"Digest", " ">>)
    THEN [err |-> Some([kind |-> "not Digest"]), header |-> Nil]
    ELSE LET s == SubSeq(wwwAuth, 3, Len(wwwAuth))
             d0 == Directives(Split(s, ","), EmptyMap)
             algorithm == IF Lookup(d0, "algorithm") = <<>> THEN <<"MD5">>
                          ELSE Lookup(d0, "algorithm")
             qop == Lookup(d0, "qop")
             realm == Lookup(d0, "realm")
             nonce == Lookup(d0, "nonce")
             ha1 == MD5Hex(Join(<<Str(username), realm, Str(password)>>, ":"))
             ha2 == MD5Hex(<<"POST:">> \o Str(controlUrl))
             nc == NonceCount
             ds == Join(<<ha1, nonce, nc, cnonce, qop, ha2>>, ":")
             response == MD5Hex(ds)
         IN  IF algorithm # <<"MD5">>
             THEN [err |-> Some([kind |-> "digest algorithm not supported"]),
                   header |-> Nil]
             ELSE IF qop # <<"auth">>
             THEN [err |-> Some([kind |-> "digest qop not supported"]),
                   header |-> Nil]
             ELSE [err |-> Nil,
                   header |-> Some([scheme |-> "Digest",
                                    username |-> Str(username), realm |-> realm,
                                    nonce |-> nonce, uri |-> Str(controlUrl),
                                    cnonce |-> cnonce, nc |-> nc, qop |-> qop,
                                    response |-> response,
                                    algorithm |-> algorithm])]

--------------------------------------------------------------------------
(***************************************************************************)
(* Requests, responses and errors of a Call.                               *)
(***************************************************************************)
text_xml == "text/xml; charset=\"utf-8\""

\* an error value: what its message is built from
Err(kind, action) ==
    [kind |-> kind, action |-> action, statusText |-> Nil, status |-> Nil,
     faultString |-> Nil, code |-> Nil, desc |-> Nil]

\* http.StatusText
StatusText(status) ==
    CASE status = 200 -> "OK"
      [] status = 401 -> "Unauthorized"
      [] status = 404 -> "Not Found"
      [] status = 500 -> "Internal Server Error"
      [] OTHER -> ""

\* xml.EscapeText on one character
EscapeChar(c) ==
    CASE c = "<" -> <<"&lt;">>
      [] c = ">" -> <<"&gt;">>
      [] c = "&" -> <<"&amp;">>
      [] c = "'" -> <<"&#39;">>
      [] c = QUOTE -> <<"&#34;">>
      [] OTHER -> <<c>>

EscapeText(v) == Concat([i \in DOMAIN v |-> EscapeChar(v[i])])

\* the body of a 500 response as xml.Unmarshal into SoapEnvelope sees it:
\* wellformed is false when it is no SOAP envelope at all
Fault(wellformed, faultstring, errorCode, errorDescription) ==
    [wellformed |-> wellformed, faultstring |-> faultstring,
     errorCode |-> errorCode, errorDescription |-> errorDescription]

NoFault == Fault(FALSE, "", Nil, "")

\* lines 107-127 and 354: errorCode is an int field, so its text must parse
\* (surrounding space trimmed, empty text left as 0)
UnmarshalSoapEnvelope(f) ==
    LET zero == [neg |-> FALSE, mag |-> <<"0">>]
        txt == IF f.errorCode = Nil THEN <<>>
               ELSE Trim(Deref(f.errorCode), {" "})
        n == ParseInt(txt)
    IN  IF ~f.wellformed
        THEN [err |-> TRUE, FaultString |-> "", ErrorCode |-> zero,
              ErrorDescription |-> ""]
        ELSE IF f.errorCode = Nil \/ Deref(f.errorCode) = <<>>
        THEN [err |-> FALSE, FaultString |-> f.faultstring, ErrorCode |-> zero,
              ErrorDescription |-> f.errorDescription]
        ELSE IF n.err # NULL
        THEN [err |-> TRUE, FaultString |-> "", ErrorCode |-> zero,
              ErrorDescription |-> ""]
        ELSE [err |-> FALSE, FaultString |-> f.faultstring, ErrorCode |-> n.val,
              ErrorDescription |-> f.errorDescription]

Response(status, wwwAuth, body, fault) ==
    [status |-> status, wwwAuth |-> wwwAuth, body |-> body, fault |-> fault]

--------------------------------------------------------------------------
(***************************************************************************)
(* Action.createCallHttpRequest and Action.CallWithArguments.  t is the    *)
(* loaded tree (the heap a load leaves), c the record of the call.         *)
(***************************************************************************)
ServiceOf(t, a) == t.svcs[a.service]
RootOf(t, a) == t.roots[t.devRoot[Deref(ServiceOf(t, a).Device)]]

createCallHttpRequest(t, a, actionArgs) ==
    [method |-> "POST",
     url |-> RootOf(t, a).BaseUrl \o ServiceOf(t, a).ControlUrl,
     body |-> [action |-> a.Name, ns |-> ServiceOf(t, a).ServiceType,
               args |-> [i \in DOMAIN actionArgs |->
                            [Name |-> actionArgs[i].Name,
                             Value |-> EscapeText(actionArgs[i].Value)]]],
     ContentType |-> text_xml,
     SOAPAction |-> ServiceOf(t, a).ServiceType \o "#" \o a.Name,
     Authorization |-> Nil]

\* lines 300-308: the request is built and sent without an auth header
CallBegin(t, a, actionArgs) ==
    [fn |-> "CallWithArguments", pc |-> "wait1", action |-> Some(a), args |-> actionArgs,
     sent |-> <<createCallHttpRequest(t, a, actionArgs)>>, resps |-> <<>>,
     events |-> <<"send">>, ret |-> Nil]

Return(c, r) == [c EXCEPT !.pc = "done", !.ret = Some(r)]

\* a fault message that leaves the UPnP detail out for every fault string
Finish_NoDetail(c, resp) ==
    LET a == Deref(c.action)
        done == [c EXCEPT !.events = Append(c.events, "close")]
        env == UnmarshalSoapEnvelope(resp.fault)
        msg == IF resp.status # 500
               THEN [Err("status", a.Name) EXCEPT
                       !.statusText = Some(StatusText(resp.status)),
                       !.status = Some(resp.status)]
               ELSE IF env.err
               THEN Err("error decoding SOAPFault", a.Name)
               ELSE [Err("SAOPFault", a.Name) EXCEPT
                       !.faultString = Some(env.FaultString)]
    IN  IF resp.status # 200
        THEN Return(done, Returns(Nil, Some(msg)))
        ELSE Return(done, parseSoapResponse(a, resp.body))

\* a 500 whose body does not decode keeps the status text message
Finish_KeepStatusText(c, resp) ==
    LET a == Deref(c.action)
        done == [c EXCEPT !.events = Append(c.events, "close")]
        env == UnmarshalSoapEnvelope(resp.fault)
        msg == IF resp.status # 500 \/ env.err
               THEN [Err("status", a.Name) EXCEPT
                       !.statusText = Some(StatusText(resp.status)),
                       !.status = Some(resp.status)]
               ELSE IF env.FaultString = "UPnPError"
               THEN [Err("SAOPFault", a.Name) EXCEPT
                       !.faultString = Some(env.FaultString),
                       !.code = Some(env.ErrorCode),
                       !.desc = Some(env.ErrorDescription)]
               ELSE [Err("SAOPFault", a.Name) EXCEPT
                       !.faultString = Some(env.FaultString)]
    IN  IF resp.status # 200
        THEN Return(done, Returns(Nil, Some(msg)))
        ELSE Return(done, parseSoapResponse(a, resp.body))

\* lines 343-372: the final response
Finish(c, resp) ==
    LET a == Deref(c.action)
        done == [c EXCEPT !.events = Append(c.events, "close")]
        env == UnmarshalSoapEnvelope(resp.fault)
        msg == IF resp.status # 500
               THEN [Err("status", a.Name) EXCEPT
                       !.statusText = Some(StatusText(resp.status)),
                       !.status = Some(resp.status)]
               ELSE IF env.err
               THEN Err("error decoding SOAPFault", a.Name)
               ELSE IF env.FaultString = "UPnPError"
               THEN [Err("SAOPFault", a.Name) EXCEPT
                       !.faultString = Some(env.FaultString),
                       !.code = Some(env.ErrorCode),
                       !.desc = Some(env.ErrorDescription)]
               ELSE [Err("SAOPFault", a.Name) EXCEPT
                       !.faultString = Some(env.FaultString)]
    IN  IF resp.status # 200
        THEN Return(done, Returns(Nil, Some(msg)))
        ELSE Return(done, parseSoapResponse(a, resp.body))

\* a retry that is sent before the first response is closed and that lists
\* the arguments in reverse order
AfterFirstResponse_ReversedRetry(t, c, resp, cnonce) ==
    LET a == Deref(c.action)
        r == RootOf(t, a)
        got == [c EXCEPT !.resps = Append(c.resps, resp),
                         !.events = Append(c.events, "recv")]
        closed == [got EXCEPT !.events = Append(got.events, "close")]
        auth == getDigestAuthHeader(ServiceOf(t, a).ControlUrl, resp.wwwAuth,
                                    r.Username, r.Password, cnonce)
        reversed == [i \in DOMAIN c.args |-> c.args[Len(c.args) + 1 - i]]
    IN  IF resp.status = 401
        THEN IF resp.wwwAuth # <<>> /\ r.Username # "" /\ r.Password # ""
             THEN IF auth.err # Nil
                  THEN Return(closed, Returns(Nil, Some(Err("auth header", a.Name))))
                  ELSE [got EXCEPT
                          !.pc = "wait2",
                          !.sent = Append(c.sent,
                                     [createCallHttpRequest(t, a, reversed) EXCEPT
                                        !.Authorization = auth.header]),
                          !.events = got.events \o <<"send", "close">>]
             ELSE Return(closed, Returns(Nil, Some(Err("Unauthorized", a.Name))))
        ELSE Finish(got, resp)

\* the credentials test with || for its last &&: a user name alone is enough
AfterFirstResponse_UserOnly(t, c, resp, cnonce) ==
    LET a == Deref(c.action)
        r == RootOf(t, a)
        got == [c EXCEPT !.resps = Append(c.resps, resp),
                         !.events = Append(c.events, "recv")]
        closed == [got EXCEPT !.events = Append(got.events, "close")]
        auth == getDigestAuthHeader(ServiceOf(t, a).ControlUrl, resp.wwwAuth,
                                    r.Username, r.Password, cnonce)
    IN  IF resp.status = 401
        THEN IF resp.wwwAuth # <<>> /\ (r.Username # "" \/ r.Password # "")
             THEN IF auth.err # Nil
                  THEN Return(closed, Returns(Nil, Some(Err("auth header", a.Name))))
                  ELSE [closed EXCEPT
                          !.pc = "wait2",
                          !.sent = Append(c.sent,
                                     [createCallHttpRequest(t, a, c.args) EXCEPT
                                        !.Authorization = auth.header]),
                          !.events = Append(closed.events, "send")]
             ELSE Return(closed, Returns(Nil, Some(Err("Unauthorized", a.Name))))
        ELSE Finish(got, resp)

\* lines 314-341, then 343-372 when the status is not 401: the first response
AfterFirstResponse(t, c, resp, cnonce) ==
    LET a == Deref(c.action)
        r == RootOf(t, a)
        got == [c EXCEPT !.resps = Append(c.resps, resp),
                         !.events = Append(c.events, "recv")]
        closed == [got EXCEPT !.events = Append(got.events, "close")]
        auth == getDigestAuthHeader(ServiceOf(t, a).ControlUrl, resp.wwwAuth,
                                    r.Username, r.Password, cnonce)
    IN  IF resp.status = 401
        THEN IF resp.wwwAuth # <<>> /\ r.Username # "" /\ r.Password # ""
             THEN IF auth.err # Nil
                  THEN Return(closed, Returns(Nil, Some(Err("auth header", a.Name))))
                  ELSE [closed EXCEPT
                          !.pc = "wait2",
                          !.sent = Append(c.sent,
                                     [createCallHttpRequest(t, a, c.args) EXCEPT
                                        !.Authorization = auth.header]),
                          !.events = Append(closed.events, "send")]
             ELSE Return(closed, Returns(Nil, Some(Err("Unauthorized", a.Name))))
        ELSE Finish(got, resp)

\* a retry loop: another 401 sends the request once more
AfterSecondResponse_RetryAgain(c, resp) ==
    IF resp.status = 401
    THEN [c EXCEPT !.resps = Append(c.resps, resp),
                   !.sent = Append(c.sent, c.sent[Len(c.sent)]),
                   !.events = c.events \o <<"recv", "close", "send">>]
    ELSE Finish([c EXCEPT !.resps = Append(c.resps, resp),
                          !.events = Append(c.events, "recv")], resp)

\* lines 332-372: the response to the retried request
AfterSecondResponse(c, resp) ==
    Finish([c EXCEPT !.resps = Append(c.resps, resp),
                     !.events = Append(c.events, "recv")], resp)

\* lines 310-312 and 334-336: http.DefaultClient.Do returns an error
AfterDoError(c) ==
    Return(c, Returns(Nil, Some(Err("transport", IF c.pc = "wait1" THEN ""
                                                 ELSE Deref(c.action).Name))))

--------------------------------------------------------------------------
(***************************************************************************)
(* The older Action.Call: one request, sent with basic credentials, whose  *)
(* response is parsed whatever its status.                                 *)
(***************************************************************************)
\* lines 204-227: the request is built, SetBasicAuth adds the Authorization
\* header, and the request is sent
BasicCallBegin(t, a) ==
    [fn |-> "Call", pc |-> "wait1", action |-> Some(a), args |-> <<>>,
     sent |-> <<[createCallHttpRequest(t, a, <<>>) EXCEPT
                   !.Authorization = Some([scheme |-> "Basic",
                                           username |-> Str(RootOf(t, a).Username),
                                           password |-> Str(RootOf(t, a).Password)])]>>,
     resps |-> <<>>, events |-> <<"send">>, ret |-> Nil]

\* lines 232-236
BasicCallResponse(c, resp) ==
    Return([c EXCEPT !.resps = Append(c.resps, resp),
                     !.events = Append(c.events, "recv")],
           parseSoapResponse(Deref(c.action), resp.body))

--------------------------------------------------------------------------
(***************************************************************************)
(* What the device may answer to a POST.                                   *)
(***************************************************************************)
GoodChallenge ==
    <<"Digest", " ", "realm", "=", QUOTE, "x", QUOTE, ",", " ",
      "nonce", "=", QUOTE, "y", QUOTE, ",", " ", "qop", "=", "auth">>

Challenges ==
    { <<>>,
      GoodChallenge,
      <<"Basic", " ", "realm", "=", QUOTE, "x", QUOTE>>,
      <<"Digest", " ", "realm", "=", QUOTE, "x", QUOTE, ",", " ",
        "nonce", "=", QUOTE, "y", QUOTE, ",", " ", "qop", "=", "auth-int">>,
      <<"Digest", " ", "realm", "=", QUOTE, "x", QUOTE, ",", " ",
        "nonce", "=", QUOTE, "y", QUOTE, ",", " ", "qop", "=", "auth", ",", " ",
        "algorithm", "=", "MD5-sess">> }

Faults ==
    {NoFault}
    \cup {Fault(TRUE, fs, code, "Action not authorized") :
             fs \in {"UPnPError", "Server"},
             code \in {Some(<<"4", "0", "1">>), Some(<<"x">>), Nil}}

CNonces == {<<"0011223344556677">>, <<"8899aabbccddeeff">>}

Responses(bodies) ==
    {Response(200, w, b, NoFault) : w \in {<<>>}, b \in bodies}
    \cup {Response(200, GoodChallenge, NoBody, NoFault)}
    \cup {Response(401, w, NoBody, NoFault) : w \in Challenges}
    \cup {Response(500, <<>>, NoBody, f) : f \in Faults}
    \cup {Response(500, GoodChallenge, NoBody, NoFault)}
    \cup {Response(404, <<>>, NoBody, NoFault)}

ArgLists ==
    {<<>>,
     <<[Name |-> "NewIndex", Value |-> <<"1", "<">>]>>,
     <<[Name |-> "NewIndex", Value |-> <<"1", "<">>],
       [Name |-> "NewCount", Value |-> <<"2">>]>>}

--------------------------------------------------------------------------
(***************************************************************************)
(* Challenges as a server composes them: a scheme and directives, each a   *)
(* key and a value that is written between quotes or bare.  The header     *)
(* text is what getDigestAuthHeader receives.                              *)
(***************************************************************************)
Directive(key, value, quoted) == [key |-> key, value |-> value, quoted |-> quoted]

DirectiveText(d) ==
    <<d.key, "=">> \o (IF d.quoted THEN <<QUOTE>> \o d.value \o <<QUOTE>>
                       ELSE d.value)

\* the header text of a challenge: scheme, space, directives separated by
\* comma and space
ChallengeText(ch) ==
    <<ch.scheme, " ">>
    \o Concat([i \in DOMAIN ch.dirs |->
                  (IF i = 1 THEN <<>> ELSE <<",", " ">>)
                  \o DirectiveText(ch.dirs[i])])

RealmValues == {<<"x">>, <<"a", ",", "b">>}
QopDirectives ==
    {<<>>} \cup {<<Directive("qop", <<"auth">>, q)>> : q \in BOOLEAN}
           \cup {<<Directive("qop", <<"auth-int">>, FALSE)>>,
                 <<Directive("qop", <<"auth", ",", "auth-int">>, TRUE)>>}
AlgorithmDirectives ==
    {<<>>} \cup {<<Directive("algorithm", <<a>>, FALSE)>> : a \in {"MD5", "MD5-sess"}}

DigestChallenges ==
    {[scheme |-> "Digest",
      dirs |-> <<Directive("realm", r, TRUE), Directive("nonce", <<"y">>, TRUE)>>
               \o q \o a] :
        r \in RealmValues, q \in QopDirectives, a \in AlgorithmDirectives}
    \cup {[scheme |-> "Basic", dirs |-> <<Directive("realm", <<"x">>, TRUE)>>]}

--------------------------------------------------------------------------
(***************************************************************************)
(* Action.IsGetOnly.                                                       *)
(***************************************************************************)
\* an action that is get-only whenever no argument has direction "in",
\* arguments or not
IsGetOnly_Vacuous(a) ==
    ~\E i \in DOMAIN a.Arguments : a.Arguments[i].Direction = "in"

\* lines 132-142: false at the first argument of direction "in", otherwise
\* whether there is any argument
IsGetOnly(a) ==
    IF \E i \in DOMAIN a.Arguments : a.Arguments[i].Direction = "in"
    THEN FALSE
    ELSE Len(a.Arguments) > 0

\* the directions an SCPD may spell: the decoder keeps the text as it is
Directions == {"in", "out", "IN"}

\* an action declared with the given directions, in order
ActionWith(dirs) ==
    [Name |-> "X_Action",
     Arguments |-> [i \in DOMAIN dirs |-> ArgDecl("NewArg", dirs[i], "Var")]]

--------------------------------------------------------------------------
VARIABLES
    ld,     \* the load in progress: heap, walk position, return value
    gets,   \* the GETs answered so far: <<[url, err, status, xml]>>
    tree,   \* the heap a completed load left: roots, svcs, devRoot, root
    call,   \* the Call in progress or just returned
    ncalls, \* Calls started so far
    issued, \* the Authorization headers getDigestAuthHeader produced so far
    parse,  \* one application of parseSoapResponse: action, body, result
    pure,   \* one application of a function without side effects: fn, in, out
    calls,  \* two goroutines inside CallWithArguments on one Root
    fc,     \* the FritzboxCollector: Root, its mutex, the loader and a scrape
    test,   \* the run of test(): actions still to visit, calls made
    collect \* one Collect on a loaded Root: metrics, cache, samples, errors

vars == <<ld, gets, tree, call, ncalls, issued, parse, pure, calls, fc, test, collect>>

\* what the steps of one component leave alone
nonLoadVars == <<tree, call, ncalls, issued, parse, pure, calls, fc, test, collect>>
nonCallVars == <<ld, gets, parse, pure, calls, fc, test, collect>>
nonParseVars == <<ld, gets, tree, call, ncalls, issued, pure, calls, fc, test, collect>>
nonPureVars == <<ld, gets, tree, call, ncalls, issued, parse, calls, fc, test, collect>>
nonConcVars == <<ld, gets, tree, call, ncalls, issued, parse, pure, fc, test, collect>>
nonTestVars == <<ld, gets, tree, call, ncalls, issued, parse, pure, calls, fc, collect>>
nonCollectVars == <<ld, gets, tree, call, ncalls, issued, parse, pure, calls, fc, test>>
nonCollectorVars == <<ld, gets, tree, call, ncalls, issued, parse, pure, calls, test, collect>>

BaseUrls == {"http://fritz.box:49000"}
Usernames == {"", "admin"}
Passwords == {"", "secret"}

IdleLoad ==
    [pc |-> "idle", which |-> "root", roots |-> EmptyMap, svcs |-> EmptyMap,
     devRoot |-> EmptyMap, work |-> <<>>, visited |-> <<>>, url |-> "", ret |-> Nil]

(***************************************************************************)
(* The loader's steps.                                                     *)
(***************************************************************************)
LoadServices ==
    /\ ld.pc = "idle"
    /\ \E b \in BaseUrls, u \in Usernames, p \in Passwords :
          ld' = LoadServicesBegin(b, u, p)
    /\ UNCHANGED <<gets, nonLoadVars>>

GetFails ==
    /\ ld.pc \in {"desc", "scpd"}
    /\ ld' = OnGetError(ld)
    /\ gets' = Append(gets, [url |-> ld.url, err |-> TRUE, status |-> 0, xml |-> ""])
    /\ UNCHANGED nonLoadVars

GetDescription ==
    /\ ld.pc = "desc"
    /\ \E st \in Statuses, b \in DescBodies(PathOf(ld)) :
          /\ ld' = OnDescription(ld, [status |-> st, body |-> b])
          /\ gets' = Append(gets, [url |-> ld.url, err |-> FALSE, status |-> st,
                                   xml |-> b.xml])
    /\ UNCHANGED nonLoadVars

GetScpd ==
    /\ ld.pc = "scpd"
    /\ \E st \in Statuses, b \in ScpdBodies(PathOf(ld)) :
          /\ ld' = OnScpd(ld, [status |-> st, body |-> b])
          /\ gets' = Append(gets, [url |-> ld.url, err |-> FALSE, status |-> st,
                                   xml |-> b.xml])
    /\ UNCHANGED nonLoadVars

IdleCall ==
    [fn |-> "", pc |-> "idle", action |-> Nil, args |-> <<>>, sent |-> <<>>,
     resps |-> <<>>, events |-> <<>>, ret |-> Nil]

NoTree == [roots |-> EmptyMap, svcs |-> EmptyMap, devRoot |-> EmptyMap, root |-> Nil]

NoParse == [action |-> Nil, body |-> NoBody, out |-> Nil]

NoPure == [fn |-> "", in |-> <<>>, out |-> Nil]

\* the goroutines that may be inside CallWithArguments at the same time
Goroutines == {1, 2}

\* no goroutine has called yet: locals are the parameters and local variables
\* of each invocation, begun the action and arguments it was invoked with,
\* inputs what http.DefaultClient.Do and crypto/rand returned to it;
\* overlapped tells that one has taken a step while another was between its
\* request and its return
NoCalls ==
    [locals |-> [g \in Goroutines |-> IdleCall],
     begun |-> [g \in Goroutines |-> Nil],
     inputs |-> [g \in Goroutines |-> <<>>],
     overlapped |-> FALSE]

\* test() has not been entered
NoTest == [pc |-> "idle", todo |-> <<>>, called |-> <<>>, skipped |-> <<>>]

\* no Collect has been entered
NoCollect ==
    [pc |-> "idle", scrape |-> 0, root |-> Nil, metrics |-> <<>>, m |-> 0,
     resultMap |-> EmptyMap, outs |-> <<>>, invoked |-> <<>>, samples |-> <<>>,
     done |-> <<>>, collectErrors |-> 0, errorsAtEntry |-> 0,
     last |-> [service |-> "", method |-> "", result |-> EmptyMap]]

\* the goroutines the metrics handler runs Collect in, one per scrape
Scrapes == {"scrape1", "scrape2"}

\* Collect is not running
IdleScrape == [pc |-> "idle", root |-> Nil, metric |-> 0]

\* the collector as main constructs it: Root nil, mutex free, LoadServices
\* about to run in its goroutine, no scrape in progress
NoCollector ==
    [Root |-> Nil, mutex |-> Nil,
     loader |-> [pc |-> "load", root |-> Nil, attempts |-> 0],
     scrape |-> [g \in Scrapes |-> IdleScrape],
     assigns |-> 0, accesses |-> {}]

LoadInit ==
    /\ ld = IdleLoad
    /\ calls = NoCalls
    /\ fc = NoCollector
    /\ test = NoTest
    /\ collect = NoCollect
    /\ gets = <<>>
    /\ tree = NoTree
    /\ call = IdleCall
    /\ ncalls = 0
    /\ issued = <<>>
    /\ parse = NoParse
    /\ pure = NoPure

LoadNext == LoadServices \/ GetFails \/ GetDescription \/ GetScpd

SpecLoad == LoadInit /\ [][LoadNext]_vars

--------------------------------------------------------------------------
(***************************************************************************)
(* Calls on a loaded tree.                                                 *)
(***************************************************************************)
\* the tree LoadServices returns when every document is served
LoadedTree(baseurl, username, password) ==
    LET L == RunLoad(LoadServicesBegin(baseurl, username, password))
    IN  [roots |-> L.roots, svcs |-> L.svcs, devRoot |-> L.devRoot,
         root |-> Deref(L.ret).root]

\* the actions reachable through root.Services[type].Actions[name]
ActionsOf(t) ==
    LET services == Deref(t.roots[Deref(t.root)].Services)
    IN  UNION {Range(Deref(t.svcs[services[st]].Actions)) : st \in DOMAIN services}

\* the elements of the bodies answered to a Call: text elements only
CallElems == {e \in Elems : e.content = "text" /\ e.name \in {"NewFoo", "NewCnt", "NewTotal"}}

CallBodies == BodiesUpTo(CallElems, MaxCallElems)

CallWithArguments ==
    /\ call.pc = "idle"
    /\ ncalls < MaxCalls
    /\ \E a \in ActionsOf(tree), args \in ArgLists :
          call' = CallBegin(tree, a, args)
    /\ ncalls' = ncalls + 1
    /\ UNCHANGED <<tree, issued, nonCallVars>>

Call ==
    /\ call.pc = "idle"
    /\ ncalls < MaxCalls
    /\ \E a \in ActionsOf(tree) :
          call' = BasicCallBegin(tree, a)
    /\ ncalls' = ncalls + 1
    /\ UNCHANGED <<tree, issued, nonCallVars>>

DoFails ==
    /\ call.pc \in {"wait1", "wait2"}
    /\ call' = AfterDoError(call)
    /\ UNCHANGED <<tree, ncalls, issued, nonCallVars>>

\* a Call that forgets the password of the Root once the device has refused it
FirstResponse_ForgetsPassword ==
    /\ call.fn = "CallWithArguments"
    /\ call.pc = "wait1"
    /\ \E resp \in Responses(CallBodies), cnonce \in CNonces :
          /\ call' = AfterFirstResponse(tree, call, resp, cnonce)
          /\ tree' = IF resp.status = 401 /\ call'.pc = "done"
                     THEN [tree EXCEPT !.roots["root"].Password = ""]
                     ELSE tree
    /\ issued' = IF call'.pc = "wait2"
                 THEN Append(issued, Deref(call'.sent[Len(call'.sent)].Authorization))
                 ELSE issued
    /\ UNCHANGED <<ncalls, nonCallVars>>

FirstResponse ==
    /\ call.fn = "CallWithArguments"
    /\ call.pc = "wait1"
    /\ \E resp \in Responses(CallBodies), cnonce \in CNonces :
          call' = AfterFirstResponse(tree, call, resp, cnonce)
    /\ issued' = IF call'.pc = "wait2"
                 THEN Append(issued, Deref(call'.sent[Len(call'.sent)].Authorization))
                 ELSE issued
    /\ UNCHANGED <<tree, ncalls, nonCallVars>>

SecondResponse ==
    /\ call.fn = "CallWithArguments"
    /\ call.pc = "wait2"
    /\ \E resp \in Responses(CallBodies) :
          call' = AfterSecondResponse(call, resp)
    /\ UNCHANGED <<tree, ncalls, issued, nonCallVars>>

BasicResponse ==
    /\ call.fn = "Call"
    /\ call.pc = "wait1"
    /\ \E resp \in Responses(CallBodies) :
          call' = BasicCallResponse(call, resp)
    /\ UNCHANGED <<tree, ncalls, issued, nonCallVars>>

\* the caller takes the return value; the next Call may start
CallReturns ==
    /\ call.pc = "done"
    /\ call' = IdleCall
    /\ UNCHANGED <<tree, ncalls, issued, nonCallVars>>

CallInit ==
    /\ ld = IdleLoad
    /\ calls = NoCalls
    /\ fc = NoCollector
    /\ test = NoTest
    /\ collect = NoCollect
    /\ gets = <<>>
    /\ \E b \in BaseUrls, u \in Usernames, p \in Passwords :
          tree = LoadedTree(b, u, p)
    /\ call = IdleCall
    /\ ncalls = 0
    /\ issued = <<>>
    /\ parse = NoParse
    /\ pure = NoPure

CallNext ==
    \/ CallWithArguments
    \/ Call
    \/ DoFails
    \/ FirstResponse
    \/ SecondResponse
    \/ BasicResponse
    \/ CallReturns

SpecCall == CallInit /\ [][CallNext]_vars

--------------------------------------------------------------------------
(***************************************************************************)
(* parseSoapResponse applied to one body, for each action of the loaded    *)
(* tree.                                                                   *)
(***************************************************************************)
ParseSoapResponse ==
    /\ parse.out = Nil
    /\ parse.action # Nil
    /\ parse' = [parse EXCEPT
                   !.out = Some(parseSoapResponse(Deref(parse.action), parse.body))]
    /\ UNCHANGED nonParseVars

ParseInit ==
    /\ ld = IdleLoad
    /\ calls = NoCalls
    /\ fc = NoCollector
    /\ test = NoTest
    /\ collect = NoCollect
    /\ gets = <<>>
    /\ tree = LoadedTree("http://fritz.box:49000", "admin", "secret")
    /\ call = IdleCall
    /\ ncalls = 0
    /\ issued = <<>>
    /\ \E a \in ActionsOf(tree), k \in 0..MaxElems :
          \E es \in [1..k -> Elems] :
             \E b \in {NoBody} \cup {BodyOf(es, cut) : cut \in 0..Len(DocTokens(es))} :
                parse = [action |-> Some(a), body |-> b, out |-> Nil]
    /\ pure = NoPure

ParseNext == ParseSoapResponse

SpecParse == ParseInit /\ [][ParseNext]_vars

--------------------------------------------------------------------------
(***************************************************************************)
(* Properties of CallWithArguments, checked under SpecCall.                *)
(***************************************************************************)
IsCWA == call.fn = "CallWithArguments"
CallRoot == RootOf(tree, Deref(call.action))

\* the Call has returned after handling a response in lines 343-372: that
\* response is its final response
HasFinal ==
    /\ call.pc = "done"
    /\ Len(call.resps) >= 1
    /\ Len(call.resps) = Len(call.sent)
    /\ ~(Len(call.resps) = 1 /\ call.resps[1].status = 401)

FinalResp == call.resps[Len(call.resps)]

\* C1: within one Call at most two POSTs are sent; the second only after a
\* first response with status 401, a non-empty WWW-Authenticate challenge and
\* with both user name and password configured; the second response, whatever
\* it is, ends the Call.
C1_AtMostTwoRequests ==
    IsCWA =>
      /\ Len(call.sent) <= 2
      /\ Len(call.resps) <= Len(call.sent)
      /\ Len(call.sent) = 2 =>
            /\ Len(call.resps) >= 1
            /\ call.resps[1].status = 401
            /\ call.resps[1].wwwAuth # <<>>
            /\ CallRoot.Username # ""
            /\ CallRoot.Password # ""
      /\ Len(call.resps) = 2 => call.pc = "done"

\* a Call whose retried request was answered 401 again, and which then ended
C1_Witness ==
    /\ IsCWA
    /\ call.pc = "done"
    /\ Len(call.sent) = 2
    /\ Len(call.resps) = 2
    /\ call.resps[2].status = 401
    /\ call.resps[2].wwwAuth # <<>>

\* C2: the first request of every Call carries no Authorization header,
\* whether or not credentials are configured; a request with an Authorization
\* header was preceded, in the same Call, by a request without one that was
\* answered 401.
C2_FirstRequestUnauthenticated ==
    \A i \in DOMAIN call.sent :
       call.sent[i].Authorization # Nil =>
          /\ i > 1
          /\ call.sent[i - 1].Authorization = Nil
          /\ Len(call.resps) >= i - 1
          /\ call.resps[i - 1].status = 401

\* C3: a first response 401 with user name or password empty, or without a
\* challenge, makes the Call fail with the authentication-required error,
\* without a second request and without a Result.
C3_UnauthorizedWithoutCredentials ==
    (/\ IsCWA
     /\ Len(call.resps) >= 1
     /\ call.resps[1].status = 401
     /\ \/ CallRoot.Username = ""
        \/ CallRoot.Password = ""
        \/ call.resps[1].wwwAuth = <<>>)
    => /\ call.pc = "done"
       /\ Len(call.sent) = 1
       /\ Deref(call.ret).res = Nil
       /\ Deref(call.ret).err = Some(Err("Unauthorized", Deref(call.action).Name))

\* a 401 with a usable challenge when only the user name is configured
C3_Witness ==
    /\ IsCWA
    /\ call.pc = "done"
    /\ Len(call.resps) = 1
    /\ call.resps[1].status = 401
    /\ call.resps[1].wwwAuth = GoodChallenge
    /\ CallRoot.Username # ""
    /\ CallRoot.Password = ""

\* the final response is a 500 whose body is a SOAP fault envelope with an
\* errorCode that is an integer and an errorDescription
FinalIsUpnpFault ==
    /\ IsCWA
    /\ HasFinal
    /\ FinalResp.status = 500
    /\ FinalResp.fault.wellformed
    /\ FinalResp.fault.errorCode # Nil
    /\ ParseInt(Deref(FinalResp.fault.errorCode)).err = NULL

CallErr == Deref(Deref(call.ret).err)

FinalIsUndecodable500 ==
    /\ IsCWA
    /\ HasFinal
    /\ FinalResp.status = 500
    /\ UnmarshalSoapEnvelope(FinalResp.fault).err

C6_ResultXorError ==
    (IsCWA /\ call.pc = "done") =>
      /\ ~Deref(call.ret).panic
      /\ (Deref(call.ret).res = Nil) # (Deref(call.ret).err = Nil)
      /\ Deref(call.ret).res # Nil => (HasFinal /\ FinalResp.status = 200)

--------------------------------------------------------------------------
(***************************************************************************)
(* Properties of parseSoapResponse, checked under SpecParse.               *)
(***************************************************************************)
ParsedAction == Deref(parse.action)
ParseOut == Deref(parse.out)
ParsedResult == Deref(ParseOut.res)
Toks == parse.body.tokens

HasArg(a, n, dir) ==
    \E k \in DOMAIN a.Arguments :
       a.Arguments[k].Name = n /\ a.Arguments[k].Direction = dir

\* the start tags of the response named after an output argument of the action
OutArgStarts ==
    {i \in DOMAIN Toks : Toks[i].kind = "StartElement"
                         /\ HasArg(ParsedAction, Toks[i].name, "out")}

\* the start tags named after an argument of the action, of any direction
ArgStarts ==
    {i \in DOMAIN Toks : Toks[i].kind = "StartElement"
                         /\ \E d \in {"in", "out"} :
                               HasArg(ParsedAction, Toks[i].name, d)}

ArgAt(i) == ParsedAction.ArgumentMap[Toks[i].name]
VarNameAt(i) == Deref(ArgAt(i).StateVariable).Name

\* the text of the element that starts at token i, decoded with the data type
\* of its argument's state variable
DecodedAt(i) ==
    Deref(convertResult(IF Toks[i + 1].kind = "CharData" THEN Toks[i + 1].text
                        ELSE <<>>,
                        ArgAt(i)).val)

\* the last element of the response related to the state variable of element i
LastFor(i) ==
    CHOOSE j \in ArgStarts :
       /\ VarNameAt(j) = VarNameAt(i)
       /\ \A k \in ArgStarts : VarNameAt(k) = VarNameAt(i) => k <= j

C8_OnlyOutputArgumentsCaptured ==
    (parse.out # Nil /\ parse.body.eof /\ OutArgStarts = {}) =>
       /\ ~ParseOut.panic
       /\ ParseOut.err = Nil
       /\ ParseOut.res = Some(EmptyMap)

--------------------------------------------------------------------------
(***************************************************************************)
(* Properties of LoadServices, checked under SpecLoad.                     *)
(***************************************************************************)
LoadRet == Deref(ld.ret)

\* GET number i failed in transport or returned a body that does not decode
FetchFailed(i) == gets[i].err \/ gets[i].xml = "bad"

\* C9: a description or SCPD fetch that fails, or a body that does not
\* decode, ends the load at once with an error and no Root; a Root is
\* returned only when both descriptions were fetched and every service of
\* both trees was populated from its SCPD.
C9_LoadAllOrNothing ==
    /\ \A i \in DOMAIN gets :
          FetchFailed(i) =>
             /\ i = Len(gets)
             /\ ld.pc = "done"
             /\ LoadRet.root = Nil
             /\ LoadRet.err # Nil
    /\ (ld.ret # Nil /\ LoadRet.root # Nil) =>
          /\ LoadRet.err = Nil
          /\ DOMAIN ld.roots = {"root", "rootTr64"}
          /\ \A r \in DOMAIN ld.roots : ld.roots[r].Services # Nil
          /\ \A sid \in DOMAIN ld.svcs :
                /\ ld.svcs[sid].Actions # Nil
                /\ ld.svcs[sid].Device = Some(sid.dev)
                /\ \E i \in DOMAIN gets :
                      gets[i].url = ld.roots[ld.devRoot[sid.dev]].BaseUrl
                                      \o ld.svcs[sid].SCPDUrl
          /\ \A i \in DOMAIN gets : ~FetchFailed(i)

\* the load failed on an SCPD of the secondary tree, after the primary tree
\* had been populated
C9_Witness ==
    /\ ld.pc = "done"
    /\ LoadRet.root = Nil
    /\ LoadRet.err # Nil
    /\ ld.which = "rootTr64"
    /\ Len(gets) >= 4
    /\ FetchFailed(Len(gets))
    /\ gets[Len(gets)].url # ld.roots["root"].BaseUrl \o DescPath("rootTr64")
    /\ \E sid \in DOMAIN ld.svcs : ld.svcs[sid].Actions # Nil

\* C10: a response with a status other than 200 to the GET of a description
\* or of an SCPD ends the load with an error and no Root, whatever its body.
C10_NonSuccessStatusAbortsLoad ==
    \A i \in DOMAIN gets :
       (~gets[i].err /\ gets[i].status # 200) =>
          /\ i = Len(gets)
          /\ ld.pc = "done"
          /\ LoadRet.root = Nil
          /\ LoadRet.err # Nil

\* the load has returned a Root
LoadSucceeded == ld.ret # Nil /\ LoadRet.root # Nil

\* C11: a load that meets an argument whose related state variable has no
\* state variable of that name in its service fails; so after a successful
\* load every Argument of every action has a resolved StateVariable.
C11_UnresolvedReferenceFailsLoad ==
    LoadSucceeded =>
       \A sid \in DOMAIN ld.svcs :
          \A an \in DOMAIN Deref(ld.svcs[sid].Actions) :
             LET a == Deref(ld.svcs[sid].Actions)[an]
             IN  \A k \in DOMAIN a.Arguments :
                    /\ a.Arguments[k].StateVariable # Nil
                    /\ a.ArgumentMap[a.Arguments[k].Name].StateVariable # Nil

RootServices == Deref(ld.roots["root"].Services)
Tr64Services == Deref(ld.roots["rootTr64"].Services)

\* the device of a decoded description at a path of child indexes
RECURSIVE DeviceAt(_, _)
DeviceAt(d, path) ==
    IF path = <<>> THEN d ELSE DeviceAt(d.Devices[Head(path)], Tail(path))

\* the <service> declaration a service object was decoded from
DeclOf(sid) == DeviceAt(ld.roots[sid.dev.root].Device, sid.dev.path).Services[sid.idx]

\* the service objects of a tree
ServicesOfTree(r) == {sid \in DOMAIN ld.svcs : sid.dev.root = r}

\* C12: after a successful load, a service type declared in both
\* descriptions is mapped to the Service object of the secondary tree, with
\* the control URL and SCPD URL of its own declaration and nothing of the
\* primary service; a type declared in one tree only keeps its entry.
C12_SecondaryReplacesPrimary ==
    LoadSucceeded =>
       /\ \A k \in DOMAIN Tr64Services :
             /\ k \in DOMAIN RootServices
             /\ RootServices[k] = Tr64Services[k]
             /\ RootServices[k].dev.root = "rootTr64"
             /\ ld.svcs[RootServices[k]].ServiceType = k
             /\ ld.svcs[RootServices[k]].ControlUrl = DeclOf(RootServices[k]).ControlUrl
             /\ ld.svcs[RootServices[k]].SCPDUrl = DeclOf(RootServices[k]).SCPDUrl
             /\ ld.svcs[RootServices[k]].Device = Some(RootServices[k].dev)
             /\ \A an \in DOMAIN Deref(ld.svcs[RootServices[k]].Actions) :
                   Deref(ld.svcs[RootServices[k]].Actions)[an].service
                      = RootServices[k]
       /\ \A sid \in ServicesOfTree("root") :
             ld.svcs[sid].ServiceType \notin DOMAIN Tr64Services =>
                /\ ld.svcs[sid].ServiceType \in DOMAIN RootServices
                /\ RootServices[ld.svcs[sid].ServiceType].dev.root = "root"

\* both trees declared WANCommonInterfaceConfig and only the primary one
\* WANIPConnection
C12_Witness ==
    /\ LoadSucceeded
    /\ \E p \in ServicesOfTree("root"), q \in ServicesOfTree("rootTr64") :
          /\ ld.svcs[p].ServiceType = ld.svcs[q].ServiceType
          /\ ld.svcs[p].ControlUrl # ld.svcs[q].ControlUrl
          /\ RootServices[ld.svcs[p].ServiceType] = q
    /\ \E p \in ServicesOfTree("root") :
          /\ ld.svcs[p].ServiceType \notin DOMAIN Tr64Services
          /\ RootServices[ld.svcs[p].ServiceType] = p

\* the primary tree was walked to its end: the load is in the secondary tree
PrimaryLoaded ==
    /\ ld.which = "rootTr64"
    /\ ld.roots["root"].Services # Nil
    /\ \A sid \in ServicesOfTree("root") : ld.svcs[sid].Actions # Nil

\* C13: when the primary tree has loaded completely and the fetch or the
\* decoding of the secondary description or of one of its SCPDs fails,
\* LoadServices returns an error and no Root, not the primary-only Root.
C13_NoFallBackToPrimary ==
    (ld.which = "rootTr64" /\ gets # <<>> /\ FetchFailed(Len(gets))) =>
       /\ PrimaryLoaded
       /\ ld.pc = "done"
       /\ LoadRet.root = Nil
       /\ LoadRet.err # Nil

\* the secondary description itself failed after both primary services were
\* populated
C13_Witness ==
    /\ PrimaryLoaded
    /\ Cardinality(ServicesOfTree("root")) = 2
    /\ gets # <<>>
    /\ FetchFailed(Len(gets))
    /\ gets[Len(gets)].url = ld.roots["root"].BaseUrl \o DescPath("rootTr64")
    /\ ld.pc = "done"

\* device path p is walked before device path q: a device before its
\* children, children in document order
PathBefore(p, q) ==
    \/ Len(p) < Len(q) /\ SubSeq(q, 1, Len(p)) = p
    \/ \E i \in 1..Len(p) :
          /\ i <= Len(q)
          /\ SubSeq(p, 1, i - 1) = SubSeq(q, 1, i - 1)
          /\ p[i] < q[i]

\* service object s1 is loaded before service object s2
LoadedBefore(s1, s2) ==
    \/ s1.dev.root = "root" /\ s2.dev.root = "rootTr64"
    \/ /\ s1.dev.root = s2.dev.root
       /\ \/ s1.dev.path = s2.dev.path /\ s1.idx < s2.idx
          \/ s1.dev.path # s2.dev.path /\ PathBefore(s1.dev.path, s2.dev.path)

\* C14: after a successful load the service map has one entry per distinct
\* service type declared in either tree, each key is the ServiceType of its
\* Service, and a type declared more than once is mapped to the declaration
\* loaded last.
C14_OneEntryPerServiceType ==
    LoadSucceeded =>
       /\ DOMAIN RootServices = {ld.svcs[sid].ServiceType : sid \in DOMAIN ld.svcs}
       /\ \A k \in DOMAIN RootServices :
             /\ RootServices[k] \in DOMAIN ld.svcs
             /\ ld.svcs[RootServices[k]].ServiceType = k
             /\ \A sid \in DOMAIN ld.svcs :
                   ld.svcs[sid].ServiceType = k =>
                      sid = RootServices[k] \/ LoadedBefore(sid, RootServices[k])

\* WANIPConnection declared twice in the root device and once in its child:
\* the map holds the child's
C14_Witness ==
    /\ LoadSucceeded
    /\ \E s1, s2, s3 \in ServicesOfTree("root") :
          /\ s1.dev.path = s2.dev.path
          /\ s1.idx < s2.idx
          /\ s3.dev.path # s1.dev.path
          /\ ld.svcs[s1].ServiceType = ld.svcs[s2].ServiceType
          /\ ld.svcs[s2].ServiceType = ld.svcs[s3].ServiceType
          /\ RootServices[ld.svcs[s1].ServiceType] = s3
          /\ ld.svcs[s3].ControlUrl = "/igdupnp/control/WANIPConn3"

--------------------------------------------------------------------------
(***************************************************************************)
(* IsGetOnly applied to the actions of at most MaxArgs arguments.          *)
(***************************************************************************)
ApplyIsGetOnly ==
    /\ pure.fn = "IsGetOnly"
    /\ pure.out = Nil
    /\ pure' = [pure EXCEPT !.out = Some(IsGetOnly(pure.in))]
    /\ UNCHANGED nonPureVars

IsGetOnlyInit ==
    /\ ld = IdleLoad
    /\ calls = NoCalls
    /\ fc = NoCollector
    /\ test = NoTest
    /\ collect = NoCollect
    /\ gets = <<>>
    /\ tree = NoTree
    /\ call = IdleCall
    /\ ncalls = 0
    /\ issued = <<>>
    /\ parse = NoParse
    /\ \E n \in 0..MaxArgs :
          \E dirs \in [1..n -> Directions] :
             pure = [fn |-> "IsGetOnly", in |-> ActionWith(dirs), out |-> Nil]

IsGetOnlyNext == ApplyIsGetOnly

SpecIsGetOnly == IsGetOnlyInit /\ [][IsGetOnlyNext]_vars

\* C15: IsGetOnly is true for an action exactly when none of its arguments
\* has direction "in" and it has at least one argument.
C15_IsGetOnly ==
    (pure.fn = "IsGetOnly" /\ pure.out # Nil) =>
       (Deref(pure.out) <=>
           /\ Len(pure.in.Arguments) >= 1
           /\ \A i \in DOMAIN pure.in.Arguments :
                 pure.in.Arguments[i].Direction # "in")

\* IsGetOnly has answered false for an action with an output argument
\* followed by an input argument
C15_Witness ==
    /\ pure.fn = "IsGetOnly"
    /\ pure.out # Nil
    /\ Len(pure.in.Arguments) = 2
    /\ pure.in.Arguments[1].Direction = "out"
    /\ pure.in.Arguments[2].Direction = "in"
    /\ Deref(pure.out) = FALSE

--------------------------------------------------------------------------
(***************************************************************************)
(* getDigestAuthHeader applied to the header text of a challenge.          *)
(***************************************************************************)
ApplyGetDigestAuthHeader ==
    /\ pure.fn = "getDigestAuthHeader"
    /\ pure.out = Nil
    /\ pure' = [pure EXCEPT
                  !.out = Some(getDigestAuthHeader(pure.in.controlUrl,
                                                   pure.in.wwwAuth,
                                                   pure.in.username,
                                                   pure.in.password,
                                                   pure.in.cnonce))]
    /\ UNCHANGED nonPureVars

DigestInit ==
    /\ ld = IdleLoad
    /\ calls = NoCalls
    /\ fc = NoCollector
    /\ test = NoTest
    /\ collect = NoCollect
    /\ gets = <<>>
    /\ tree = NoTree
    /\ call = IdleCall
    /\ ncalls = 0
    /\ issued = <<>>
    /\ parse = NoParse
    /\ \E ch \in DigestChallenges, u \in Usernames, p \in Passwords,
          cn \in CNonces :
          pure = [fn |-> "getDigestAuthHeader",
                  in |-> [ch |-> ch, wwwAuth |-> ChallengeText(ch),
                          controlUrl |-> "/upnp/control/deviceinfo",
                          username |-> u, password |-> p, cnonce |-> cn],
                  out |-> Nil]

DigestNext == ApplyGetDigestAuthHeader

SpecDigest == DigestInit /\ [][DigestNext]_vars

\* the value the challenge gives a directive: that of its last occurrence,
\* nothing when the challenge does not have it
RECURSIVE ValueIn(_, _)
ValueIn(dirs, key) ==
    IF dirs = <<>> THEN Nil
    ELSE IF dirs[Len(dirs)].key = key THEN Some(dirs[Len(dirs)].value)
    ELSE ValueIn(SubSeq(dirs, 1, Len(dirs) - 1), key)

ChallengeValue(key) == ValueIn(pure.in.ch.dirs, key)
DigestOut == Deref(pure.out)
DigestApplied == pure.fn = "getDigestAuthHeader" /\ pure.out # Nil

\* the challenge is one the claims call supported
SupportedChallenge ==
    /\ pure.in.ch.scheme = "Digest"
    /\ ChallengeValue("algorithm") \in {Nil, Some(<<"MD5">>)}
    /\ ChallengeValue("qop") = Some(<<"auth">>)

\* C16: the engine produces a header only for a challenge whose algorithm is
\* absent or exactly MD5 and whose qop is exactly auth; for any other
\* algorithm or qop, an absent qop included, it fails with an error.
C16_HeaderOnlyForMD5AndAuth ==
    DigestApplied =>
       /\ DigestOut.header # Nil => SupportedChallenge
       /\ ~SupportedChallenge => (DigestOut.header = Nil /\ DigestOut.err # Nil)

\* C17: the directive values the engine works with are the complete texts
\* between the quotes of the challenge, commas included: the realm, nonce and
\* qop of a produced header are those of the challenge.
C17_QuotedValuesKeptWhole ==
    (DigestApplied /\ DigestOut.header # Nil) =>
       /\ Some(Deref(DigestOut.header).realm) = ChallengeValue("realm")
       /\ Some(Deref(DigestOut.header).nonce) = ChallengeValue("nonce")
       /\ Some(Deref(DigestOut.header).qop) = ChallengeValue("qop")

\* H(H(username:realm:password) : nonce : nc : cnonce : qop : H(POST:uri)) for
\* the realm and nonce given and the uri, nc, cnonce and qop fields of header h
DigestResponse(h, realm, nonce) ==
    MD5Hex(Join(<<MD5Hex(Join(<<Str(pure.in.username), realm,
                                Str(pure.in.password)>>, ":")),
                  nonce, h.nc, h.cnonce, h.qop,
                  MD5Hex(<<"POST:">> \o h.uri)>>, ":"))

\* C18: the response field of a produced header is
\* H(H(username:realm:password):nonce:nc:cnonce:qop:H(POST:uri)) with the
\* realm and the nonce of the received challenge and the uri, nc and cnonce
\* of the header itself.
C18_ResponseFormula ==
    (DigestApplied /\ DigestOut.header # Nil) =>
       /\ ChallengeValue("realm") # Nil
       /\ ChallengeValue("nonce") # Nil
       /\ Deref(DigestOut.header).response =
             DigestResponse(Deref(DigestOut.header),
                            Deref(ChallengeValue("realm")),
                            Deref(ChallengeValue("nonce")))
       /\ Deref(DigestOut.header).uri = Str(pure.in.controlUrl)
       /\ Deref(DigestOut.header).cnonce = pure.in.cnonce

--------------------------------------------------------------------------
\* C19: every Authorization header the engine produces carries the nonce
\* count 00000001, in a first Call as in a later one and also when the
\* server repeats a nonce it has sent before.
C19_NonceCountAlwaysOne ==
    /\ \A i \in DOMAIN issued : issued[i].nc = <<"00000001">>
    /\ \A i \in DOMAIN call.sent :
          call.sent[i].Authorization # Nil =>
             (IsCWA => Deref(call.sent[i].Authorization).nc = <<"00000001">>)

\* two Calls were answered 401 with the same nonce and a header was produced
\* for each
C19_Witness ==
    /\ Len(issued) = 2
    /\ ncalls = 2
    /\ issued[1].nonce = issued[2].nonce
    /\ issued[1].nc = issued[2].nc
    /\ call.pc = "wait2"

--------------------------------------------------------------------------
(***************************************************************************)
(* convertResult applied to a raw text and an argument whose state         *)
(* variable has one of the data types an SCPD may declare.                 *)
(***************************************************************************)
DataTypes ==
    {"string", "boolean", "ui1", "ui2", "ui4", "i4", "dateTime", "uuid", "float"}

RawTexts ==
    { <<>>, <<"1">>, <<"0">>, <<"t", "r", "u", "e">>, <<"0", "1">>, <<" ", "1">>,
      <<"-", "1">>, <<"+", "1">>, <<"x">>,
      <<"4", "2", "9", "4", "9", "6", "7", "2", "9", "6">>,
      <<"1", "8", "4", "4", "6", "7", "4", "4", "0", "7", "3", "7", "0", "9",
        "5", "5", "1", "6", "1", "5">>,
      <<"1", "8", "4", "4", "6", "7", "4", "4", "0", "7", "3", "7", "0", "9",
        "5", "5", "1", "6", "1", "6">> }

\* an output argument resolved to a state variable of data type dt
ArgOfType(dt) ==
    [ArgDecl("NewX", "out", "X") EXCEPT !.StateVariable = Some(SVar("X", dt))]

\* convertResult of the library without digest authentication: string,
\* boolean and the unsigned types only, and an error that names the type
BasicConvertResult(val, arg) ==
    IF arg.StateVariable = Nil
    THEN [panic |-> TRUE, err |-> Nil, val |-> Nil]
    ELSE LET dt == Deref(arg.StateVariable).DataType
             ok(v) == [panic |-> FALSE, err |-> Nil, val |-> Some(v)]
             ko(e) == [panic |-> FALSE, err |-> Some(e), val |-> Nil]
         IN  CASE dt = "string" -> ok([type |-> "string", v |-> val])
               [] dt = "boolean" -> ok([type |-> "bool", v |-> (val = <<"1">>)])
               [] dt \in {"ui1", "ui2", "ui4"} ->
                     LET r == ParseUint(val)
                     IN  IF r.err # NULL
                         THEN ko([kind |-> "decode", msg |-> <<Str(r.err)>>])
                         ELSE ok([type |-> "uint64", v |-> r.val])
               [] OTHER -> ko([kind |-> "unknown datatype", msg |-> <<Str(dt)>>])

ApplyBasicConvertResult ==
    /\ pure.fn = "BasicConvertResult"
    /\ pure.out = Nil
    /\ pure' = [pure EXCEPT
                  !.out = Some(BasicConvertResult(pure.in.val, pure.in.arg))]
    /\ UNCHANGED nonPureVars

ApplyConvertResult ==
    /\ pure.fn = "convertResult"
    /\ pure.out = Nil
    /\ pure' = [pure EXCEPT !.out = Some(convertResult(pure.in.val, pure.in.arg))]
    /\ UNCHANGED nonPureVars

ConvertInit ==
    /\ ld = IdleLoad
    /\ calls = NoCalls
    /\ fc = NoCollector
    /\ test = NoTest
    /\ collect = NoCollect
    /\ gets = <<>>
    /\ tree = NoTree
    /\ call = IdleCall
    /\ ncalls = 0
    /\ issued = <<>>
    /\ parse = NoParse
    /\ \E fn \in {"convertResult", "BasicConvertResult"}, val \in RawTexts,
          arg \in {ArgOfType(dt) : dt \in DataTypes} \cup {ArgDecl("NewX", "out", "X")} :
          pure = [fn |-> fn, in |-> [val |-> val, arg |-> arg], out |-> Nil]

ConvertNext == ApplyConvertResult \/ ApplyBasicConvertResult

SpecConvert == ConvertInit /\ [][ConvertNext]_vars

ConvertApplied == pure.fn = "convertResult" /\ pure.out # Nil
ConvertOut == Deref(pure.out)
ConvertType ==
    IF pure.in.arg.StateVariable = Nil THEN ""
    ELSE Deref(pure.in.arg.StateVariable).DataType

\* C20: decoding a text as a boolean never fails; the value is true when the
\* text is the one character 1 and false for every other text.
C20_BooleanNeverFails ==
    (ConvertApplied /\ ConvertType = "boolean") =>
       /\ ~ConvertOut.panic
       /\ ConvertOut.err = Nil
       /\ ConvertOut.val # Nil
       /\ Deref(ConvertOut.val).type = "bool"
       /\ Deref(ConvertOut.val).v =
             (Len(pure.in.val) = 1 /\ pure.in.val[1] = "1")

\* the text true was decoded as a boolean: false, without error
C20_Witness ==
    /\ ConvertApplied
    /\ ConvertType = "boolean"
    /\ pure.in.val = <<"t", "r", "u", "e">>
    /\ ConvertOut.err = Nil
    /\ Deref(ConvertOut.val).v = FALSE

\* the text is a decimal literal: one or more of the digits 0 to 9
DecimalLiteral(val) ==
    /\ val # <<>>
    /\ \A i \in DOMAIN val :
          val[i] \in {"0", "1", "2", "3", "4", "5", "6", "7", "8", "9"}

\* C21: as ui1, ui2 or ui4, a decimal literal of a number in 0 .. 2^64-1
\* decodes to that number as an unsigned 64-bit value, whatever the nominal
\* width of the type; any other text (negative, not numeric, empty, above
\* 2^64-1) gives a decode error.
C21_UnsignedDecodesTo64Bits ==
    (ConvertApplied /\ ConvertType \in {"ui1", "ui2", "ui4"}) =>
       /\ ~ConvertOut.panic
       /\ IF DecimalLiteral(pure.in.val)
             /\ ~NumGreater(StripZeros(pure.in.val), MaxUint64)
          THEN /\ ConvertOut.err = Nil
               /\ ConvertOut.val =
                     Some([type |-> "uint64", v |-> StripZeros(pure.in.val)])
          ELSE /\ ConvertOut.err # Nil
               /\ Deref(ConvertOut.err).kind = "decode"
               /\ ConvertOut.val = Nil

\* 4294967296 = 2^32 was decoded as ui4 to that very number
C21_Witness ==
    /\ ConvertApplied
    /\ ConvertType = "ui4"
    /\ pure.in.val = <<"4", "2", "9", "4", "9", "6", "7", "2", "9", "6">>
    /\ ConvertOut.val = Some([type |-> "uint64", v |-> pure.in.val])

\* C22: decoding with a declared type other than string, boolean, ui1, ui2,
\* ui4, i4, dateTime and uuid fails with an unknown-datatype error that names
\* the type and the raw value, in either library.
C22_UnknownDatatypeNamesTypeAndValue ==
    (/\ pure.fn \in {"convertResult", "BasicConvertResult"}
     /\ pure.out # Nil
     /\ pure.in.arg.StateVariable # Nil
     /\ ConvertType \notin {"string", "boolean", "ui1", "ui2", "ui4", "i4",
                            "dateTime", "uuid"})
    => /\ ConvertOut.val = Nil
       /\ ConvertOut.err # Nil
       /\ Deref(ConvertOut.err).kind = "unknown datatype"
       /\ \E i \in DOMAIN Deref(ConvertOut.err).msg :
             Deref(ConvertOut.err).msg[i] = <<ConvertType>>
       /\ \E i \in DOMAIN Deref(ConvertOut.err).msg :
             Deref(ConvertOut.err).msg[i] = pure.in.val

--------------------------------------------------------------------------
(***************************************************************************)
(* A value written as text by the device and decoded by convertResult.     *)
(* Values are booleans, texts, and integers small enough to be counted     *)
(* with; the texts of larger numbers are among RawTexts.                   *)
(***************************************************************************)
\* the decimal digits of a natural number, most significant first
RECURSIVE RenderNat(_)
RenderNat(n) ==
    IF n < 10 THEN <<Digits[n + 1]>>
    ELSE RenderNat(n \div 10) \o <<Digits[(n % 10) + 1]>>

\* the text of a value: booleans as 1 and 0, integers in decimal, a text as
\* it is
Render(type, v) ==
    CASE type = "boolean" -> IF v THEN <<"1">> ELSE <<"0">>
      [] type = "string" -> v
      [] OTHER -> IF v < 0 THEN <<"-">> \o RenderNat(0 - v) ELSE RenderNat(v)

Ui1Values == {0, 1, 9, 10, 99, 100, 255}
Ui2Values == Ui1Values \cup {256, 65535}
Ui4Values == Ui2Values \cup {65536, 2147483647}
I4Values == Ui4Values \cup {0 - v : v \in Ui4Values}

\* the values representable in a data type
ValuesOf(type) ==
    CASE type = "boolean" -> BOOLEAN
      [] type = "string" -> RawTexts
      [] type = "ui1" -> Ui1Values
      [] type = "ui2" -> Ui2Values
      [] type = "ui4" -> Ui4Values
      [] type = "i4" -> I4Values

RoundTripTypes == {"string", "boolean", "ui1", "ui2", "ui4", "i4"}

\* the device writes the value
RenderValue ==
    /\ pure.fn = "roundtrip"
    /\ pure.in.text = Nil
    /\ pure' = [pure EXCEPT !.in.text = Some(Render(pure.in.type, pure.in.v))]
    /\ UNCHANGED nonPureVars

\* convertResult reads it back
DecodeRendered ==
    /\ pure.fn = "roundtrip"
    /\ pure.in.text # Nil
    /\ pure.out = Nil
    /\ pure' = [pure EXCEPT
                  !.out = Some(convertResult(Deref(pure.in.text),
                                             ArgOfType(pure.in.type)))]
    /\ UNCHANGED nonPureVars

RoundTripInit ==
    /\ ld = IdleLoad
    /\ calls = NoCalls
    /\ fc = NoCollector
    /\ test = NoTest
    /\ collect = NoCollect
    /\ gets = <<>>
    /\ tree = NoTree
    /\ call = IdleCall
    /\ ncalls = 0
    /\ issued = <<>>
    /\ parse = NoParse
    /\ \E type \in RoundTripTypes :
          \E v \in ValuesOf(type) :
             pure = [fn |-> "roundtrip",
                     in |-> [type |-> type, v |-> v, text |-> Nil],
                     out |-> Nil]

RoundTripNext == RenderValue \/ DecodeRendered

SpecRoundTrip == RoundTripInit /\ [][RoundTripNext]_vars

\* the number a canonical numeral stands for
RECURSIVE NumeralValue(_)
NumeralValue(ds) ==
    IF ds = <<>> THEN 0
    ELSE NumeralValue(SubSeq(ds, 1, Len(ds) - 1)) * 10 + DigitVal(ds[Len(ds)])

RoundTripDone == pure.fn = "roundtrip" /\ pure.out # Nil
RoundTripOut == Deref(Deref(pure.out).val)

\* C23: a value of type string, boolean, ui1, ui2, ui4 or i4, written as text
\* (booleans as 1 and 0, integers in decimal) and decoded with its type, is
\* the value again.
C23_DecodeInvertsRender ==
    RoundTripDone =>
       /\ ~Deref(pure.out).panic
       /\ Deref(pure.out).err = Nil
       /\ Deref(pure.out).val # Nil
       /\ CASE pure.in.type = "string" ->
                 RoundTripOut = [type |-> "string", v |-> pure.in.v]
            [] pure.in.type = "boolean" ->
                 RoundTripOut = [type |-> "bool", v |-> pure.in.v]
            [] pure.in.type \in {"ui1", "ui2", "ui4"} ->
                 /\ RoundTripOut.type = "uint64"
                 /\ NumeralValue(RoundTripOut.v) = pure.in.v
            [] pure.in.type = "i4" ->
                 /\ RoundTripOut.type = "int64"
                 /\ (IF RoundTripOut.v.neg THEN 0 - NumeralValue(RoundTripOut.v.mag)
                     ELSE NumeralValue(RoundTripOut.v.mag)) = pure.in.v

\* the i4 value -255 was written as text and read back
C23_Witness ==
    /\ RoundTripDone
    /\ pure.in.type = "i4"
    /\ pure.in.v = 0 - 255
    /\ pure.in.text = Some(<<"-", "2", "5", "5">>)
    /\ RoundTripOut.v.neg

--------------------------------------------------------------------------
\* C25: no step of a Call, successful or failed, changes the loaded tree: the
\* Root's base URL and credentials, its service map, and every Service's
\* actions, argument maps and state variables stay as the load left them.
C25_CallLeavesTreeUnchanged == [][tree' = tree]_vars

\* a second Call has failed, and the tree is still what a load yields
C25_Witness ==
    /\ ncalls = 2
    /\ IsCWA
    /\ call.pc = "done"
    /\ Deref(call.ret).err # Nil
    /\ Len(call.resps) = 2
    /\ tree = LoadedTree(tree.roots["root"].BaseUrl, tree.roots["root"].Username,
                         tree.roots["root"].Password)

--------------------------------------------------------------------------
\* C29: the retried request of a Call has the method, control URL, body
\* (action name, service type, arguments in order), Content-Type and SOAPAction
\* of the first request and differs from it only by the Authorization header
\* it adds; the first response is closed before the retry is sent.
C29_RetryRepeatsFirstRequest ==
    (IsCWA /\ Len(call.sent) >= 2) =>
       /\ call.sent[1].Authorization = Nil
       /\ call.sent[2].Authorization # Nil
       /\ call.sent[2] = [call.sent[1] EXCEPT !.Authorization = call.sent[2].Authorization]
       /\ Len(call.sent[2].body.args) = Len(call.args)
       /\ \A i \in DOMAIN call.args : call.sent[2].body.args[i].Name = call.args[i].Name
       /\ SubSeq(call.events, 1, 4) = <<"send", "recv", "close", "send">>

\* a Call with two arguments has sent its retry
C29_Witness ==
    /\ IsCWA
    /\ Len(call.sent) = 2
    /\ Len(call.args) = 2
    /\ call.args[1].Name # call.args[2].Name

--------------------------------------------------------------------------
\* the devices of a description in the order the claim gives: a device, then
\* its children in document order
RECURSIVE DevicesInOrder(_, _, _)
DevicesInOrder(d, rootId, path) ==
    <<[root |-> rootId, path |-> path]>>
    \o Concat([i \in DOMAIN d.Devices |->
                  DevicesInOrder(d.Devices[i], rootId, Append(path, i))])

\* the SCPD URLs of the declarations of a description: those of a device in
\* document order, then those of its children
RECURSIVE ScpdUrlsInOrder(_)
ScpdUrlsInOrder(d) ==
    [i \in DOMAIN d.Services |-> d.Services[i].SCPDUrl]
    \o Concat([i \in DOMAIN d.Devices |-> ScpdUrlsInOrder(d.Devices[i])])

\* the requests the claim expects of a load of both trees
ExpectedGets ==
    LET base == ld.roots["root"].BaseUrl
        tree1 == ld.roots["root"].Device
        tree2 == ld.roots["rootTr64"].Device
    IN  <<base \o DescPath("root")>>
        \o [i \in DOMAIN ScpdUrlsInOrder(tree1) |-> base \o ScpdUrlsInOrder(tree1)[i]]
        \o <<base \o DescPath("rootTr64")>>
        \o [i \in DOMAIN ScpdUrlsInOrder(tree2) |-> base \o ScpdUrlsInOrder(tree2)[i]]

\* the devices are visited once each, in order, and the GETs are the two
\* descriptions and one SCPD per declaration, in order
VisitsAndGetsAsDeclared ==
    /\ ld.visited = DevicesInOrder(ld.roots["root"].Device, "root", <<>>)
                    \o DevicesInOrder(ld.roots["rootTr64"].Device, "rootTr64", <<>>)
    /\ \A i, j \in DOMAIN ld.visited : i # j => ld.visited[i] # ld.visited[j]
    /\ [i \in DOMAIN gets |-> gets[i].url] = ExpectedGets

\* C30 as stated: after a successful load every Device of both trees has
\* been visited exactly once, a device's services before its children and
\* children in document order, one SCPD GET was issued per service
\* declaration plus one GET per description, and no request was issued twice.
C30_NoRequestRepeated ==
    LoadSucceeded =>
       /\ VisitsAndGetsAsDeclared
       /\ \A i, j \in DOMAIN gets : i # j => gets[i].url # gets[j].url

\* C30 amended: after a successful load every Device of both trees has been
\* visited exactly once, a device's services before its children and children
\* in document order, and the GETs issued are one per description and one per
\* service declaration, in that order; an SCPD URL is requested again only
\* for a further declaration that names it.
C30_OneGetPerDeclaration ==
    LoadSucceeded =>
       /\ VisitsAndGetsAsDeclared
       /\ \A i, j \in DOMAIN gets :
             (i < j /\ gets[i].url = gets[j].url) =>
                \E p, q \in DOMAIN ld.svcs :
                   /\ p # q
                   /\ ld.svcs[p].SCPDUrl = ld.svcs[q].SCPDUrl
                   /\ gets[i].url = ld.roots["root"].BaseUrl \o ld.svcs[p].SCPDUrl

\* a load has succeeded on a primary tree with two child devices and three
\* declarations that share one SCPD URL
C30_Witness ==
    /\ LoadSucceeded
    /\ Len(ld.roots["root"].Device.Devices) = 2
    /\ Len(ld.visited) = 4
    /\ \E i, j \in DOMAIN gets : i < j /\ gets[i].url = gets[j].url

--------------------------------------------------------------------------
(***************************************************************************)
(* Two goroutines in CallWithArguments on the same loaded Root.  What they *)
(* share is the tree, which they read; a, actionArgs, req, resp and err    *)
(* belong to each invocation.                                              *)
(***************************************************************************)
\* invocations that keep their variables in one place
Locals_Shared(cs, g) == cs.locals[1]

\* the parameters and local variables of the invocation of goroutine g
Locals(cs, g) == cs.locals[g]

\* the actions of the service behind one control URL
ConcActions(t) ==
    {a \in ActionsOf(t) : ServiceOf(t, a).ControlUrl = "/upnp/control/deviceinfo"}

ConcArgLists == {<<>>, <<[Name |-> "NewIndex", Value |-> <<"1", "<">>]>>}

ConcBodies ==
    {NoBody,
     BodyOf(<<[name |-> "NewCnt", content |-> "text", text |-> <<"1">>]>>, 5),
     BodyOf(<<[name |-> "NewFoo", content |-> "text", text |-> <<"b", "a", "r">>]>>, 5)}

\* what the device answers to the requests of the two goroutines
ConcResponses ==
    {Response(200, <<>>, b, NoFault) : b \in ConcBodies}
    \cup {Response(401, GoodChallenge, NoBody, NoFault),
          Response(401, <<>>, NoBody, NoFault),
          Response(500, <<>>, NoBody,
                   Fault(TRUE, "UPnPError", Some(<<"4", "0", "1">>),
                         "Action not authorized")),
          Response(404, <<>>, NoBody, NoFault)}

DoError == [err |-> TRUE, resp |-> Nil, cnonce |-> <<>>]
DoResponse(resp, cnonce) == [err |-> FALSE, resp |-> Some(resp), cnonce |-> cnonce]

\* goroutine g takes a step: is another one waiting for a response?
Overlaps(cs, g) ==
    cs.overlapped
    \/ \E h \in Goroutines \ {g} : cs.locals[h].pc \in {"wait1", "wait2"}

\* goroutine g enters CallWithArguments
ConcCall(g) ==
    /\ calls.begun[g] = Nil
    /\ \E a \in ConcActions(tree), args \in ConcArgLists :
          calls' = [calls EXCEPT
                      !.locals[g] = CallBegin(tree, a, args),
                      !.begun[g] = Some([action |-> a, args |-> args]),
                      !.overlapped = Overlaps(calls, g)]
    /\ UNCHANGED nonConcVars

\* http.DefaultClient.Do returns an error to goroutine g
ConcDoFails(g) ==
    /\ Locals(calls, g).pc \in {"wait1", "wait2"}
    /\ calls' = [calls EXCEPT
                   !.locals[g] = AfterDoError(Locals(calls, g)),
                   !.inputs[g] = Append(calls.inputs[g], DoError),
                   !.overlapped = Overlaps(calls, g)]
    /\ UNCHANGED nonConcVars

\* the response to the first request of goroutine g
ConcFirstResponse(g) ==
    /\ Locals(calls, g).pc = "wait1"
    /\ \E resp \in ConcResponses, cnonce \in CNonces :
          calls' = [calls EXCEPT
                      !.locals[g] = AfterFirstResponse(tree, Locals(calls, g), resp, cnonce),
                      !.inputs[g] = Append(calls.inputs[g], DoResponse(resp, cnonce)),
                      !.overlapped = Overlaps(calls, g)]
    /\ UNCHANGED nonConcVars

\* the response to the retried request of goroutine g
ConcSecondResponse(g) ==
    /\ Locals(calls, g).pc = "wait2"
    /\ \E resp \in ConcResponses :
          calls' = [calls EXCEPT
                      !.locals[g] = AfterSecondResponse(Locals(calls, g), resp),
                      !.inputs[g] = Append(calls.inputs[g], DoResponse(resp, <<>>)),
                      !.overlapped = Overlaps(calls, g)]
    /\ UNCHANGED nonConcVars

ConcInit ==
    /\ ld = IdleLoad
    /\ gets = <<>>
    /\ tree = LoadedTree("http://fritz.box:49000", "admin", "secret")
    /\ call = IdleCall
    /\ ncalls = 0
    /\ issued = <<>>
    /\ parse = NoParse
    /\ pure = NoPure
    /\ calls = NoCalls
    /\ fc = NoCollector
    /\ test = NoTest
    /\ collect = NoCollect

ConcNext ==
    \/ \E g \in Goroutines : ConcCall(g)
    \/ \E g \in Goroutines : ConcDoFails(g)
    \/ \E g \in Goroutines : ConcFirstResponse(g)
    \/ \E g \in Goroutines : ConcSecondResponse(g)

SpecConcurrent == ConcInit /\ [][ConcNext]_vars

\* one step of a Call that runs alone on the input in
StepAlone(t, c, in) ==
    IF in.err THEN AfterDoError(c)
    ELSE IF c.pc = "wait1"
    THEN AfterFirstResponse(t, c, Deref(in.resp), in.cnonce)
    ELSE AfterSecondResponse(c, Deref(in.resp))

\* the Call record a Call reaches when it runs alone on the inputs ins
RECURSIVE RunAlone(_, _, _)
RunAlone(t, c, ins) ==
    IF ins = <<>> THEN c ELSE RunAlone(t, StepAlone(t, c, Head(ins)), Tail(ins))

--------------------------------------------------------------------------
(***************************************************************************)
(* The FritzboxCollector of the exporter: LoadServices runs in a goroutine *)
(* of its own, Collect runs for every scrape.  F is the collector: Root,   *)
(* the mutex (its holder or Nil), the position and locals of the loader    *)
(* and of each scrape; accesses records every read and write of F.Root     *)
(* with whether the goroutine held the mutex.                              *)
(***************************************************************************)
\* load attempts counted (the count stays at the bound once it is reached)
MaxAttempts == 3
\* len(metrics)
MaxMetrics == 2

Holds(F, who) == F.mutex = Some(who)

\* goroutine who reads or writes fc.Root at site
Access(F, who, op, site) ==
    [F EXCEPT !.accesses = @ \cup {[by |-> who, op |-> op, site |-> site,
                                      held |-> Holds(F, who)]}]

\* a loader that gives up after a failed load: it assigns what it got
LoadReturned_GivesUp(F, ok) ==
    LET n == IF F.loader.attempts < MaxAttempts THEN F.loader.attempts + 1
             ELSE MaxAttempts
    IN  [F EXCEPT !.loader = [pc |-> "lock", root |-> IF ok THEN Some(n) ELSE Nil,
                              attempts |-> n]]

\* upnp.LoadServices has returned: the tree of this attempt, or nil and an
\* error, after which the loader sleeps
LoadReturned(F, ok) ==
    LET n == IF F.loader.attempts < MaxAttempts THEN F.loader.attempts + 1
             ELSE MaxAttempts
    IN  IF ok
        THEN [F EXCEPT !.loader = [pc |-> "lock", root |-> Some(n), attempts |-> n]]
        ELSE [F EXCEPT !.loader = [pc |-> "sleep", root |-> Nil, attempts |-> n]]

\* time.Sleep(serviceLoadRetryTime) is over: continue
SleepReturned(F) == [F EXCEPT !.loader.pc = "load"]

\* fc.Lock() in LoadServices
LoaderLocked(F) == [F EXCEPT !.mutex = Some("loader"), !.loader.pc = "assign"]

\* fc.Root = root
AssignRoot(F) ==
    [Access(F, "loader", "write", "LoadServices") EXCEPT
       !.Root = F.loader.root,
       !.assigns = @ + 1,
       !.loader.pc = "unlock"]

\* fc.Unlock(); return
LoaderUnlocked(F) == [F EXCEPT !.mutex = Nil, !.loader.pc = "done"]

\* fc.Lock() in Collect
CollectLocked(F, g) == [F EXCEPT !.mutex = Some(g), !.scrape[g].pc = "read"]

\* root := fc.Root
CollectReadRoot(F, g) ==
    [Access(F, g, "read", "Collect") EXCEPT
       !.scrape[g].root = F.Root,
       !.scrape[g].pc = "unlock"]

\* fc.Unlock(); Collect returns when root is nil, else enters the loop over
\* the metrics
CollectUnlocked(F, g) ==
    [F EXCEPT !.mutex = Nil,
              !.scrape[g] = IF F.scrape[g].root = Nil THEN IdleScrape
                            ELSE [pc |-> "metric", root |-> F.scrape[g].root,
                                  metric |-> 1]]

\* GetActionResult for one metric: unless the result is in resultMap it
\* looks the service up in fc.Root.Services; after the last metric Collect
\* returns
GetActionResult(F, g, cached) ==
    LET G == IF cached THEN F ELSE Access(F, g, "read", "GetActionResult")
    IN  [G EXCEPT !.scrape[g] = IF F.scrape[g].metric >= MaxMetrics THEN IdleScrape
                                ELSE [F.scrape[g] EXCEPT !.metric = @ + 1]]

RetryLoadFails ==
    /\ fc.loader.pc = "load"
    /\ fc' = LoadReturned(fc, FALSE)
    /\ UNCHANGED nonCollectorVars

RetryLoadSucceeds ==
    /\ fc.loader.pc = "load"
    /\ fc' = LoadReturned(fc, TRUE)
    /\ UNCHANGED nonCollectorVars

RetrySleep ==
    /\ fc.loader.pc = "sleep"
    /\ fc' = SleepReturned(fc)
    /\ UNCHANGED nonCollectorVars

RootLock ==
    /\ fc.loader.pc = "lock"
    /\ fc.mutex = Nil
    /\ fc' = LoaderLocked(fc)
    /\ UNCHANGED nonCollectorVars

RootAssign ==
    /\ fc.loader.pc = "assign"
    /\ fc' = AssignRoot(fc)
    /\ UNCHANGED nonCollectorVars

RootUnlock ==
    /\ fc.loader.pc = "unlock"
    /\ fc' = LoaderUnlocked(fc)
    /\ UNCHANGED nonCollectorVars

Collect ==
    /\ fc.mutex = Nil
    /\ \E g \in Scrapes :
          /\ fc.scrape[g].pc = "idle"
          /\ fc' = CollectLocked(fc, g)
    /\ UNCHANGED nonCollectorVars

CollectRead ==
    /\ \E g \in Scrapes :
          /\ fc.scrape[g].pc = "read"
          /\ fc' = CollectReadRoot(fc, g)
    /\ UNCHANGED nonCollectorVars

CollectUnlock ==
    /\ \E g \in Scrapes :
          /\ fc.scrape[g].pc = "unlock"
          /\ fc' = CollectUnlocked(fc, g)
    /\ UNCHANGED nonCollectorVars

CollectGetActionResult ==
    /\ \E g \in Scrapes :
          /\ fc.scrape[g].pc = "metric"
          /\ \E cached \in (IF fc.scrape[g].metric = 1 THEN {FALSE} ELSE BOOLEAN) :
                fc' = GetActionResult(fc, g, cached)
    /\ UNCHANGED nonCollectorVars

CollectorInit ==
    /\ ld = IdleLoad
    /\ gets = <<>>
    /\ tree = NoTree
    /\ call = IdleCall
    /\ ncalls = 0
    /\ issued = <<>>
    /\ parse = NoParse
    /\ pure = NoPure
    /\ calls = NoCalls
    /\ fc = NoCollector
    /\ test = NoTest
    /\ collect = NoCollect

CollectorNext ==
    \/ RetryLoadFails
    \/ RetryLoadSucceeds
    \/ RetrySleep
    \/ RootLock
    \/ RootAssign
    \/ RootUnlock
    \/ Collect
    \/ CollectRead
    \/ CollectUnlock
    \/ CollectGetActionResult

SpecCollector == CollectorInit /\ [][CollectorNext]_vars

\* the same steps, scheduled: no goroutine stops for ever where it can go
\* on, sync.Mutex hands the mutex to a waiting goroutine in the end, and a
\* load that is tried again and again succeeds in the end
SpecCollectorLive ==
    /\ SpecCollector
    /\ WF_vars(RetrySleep)
    /\ SF_vars(RetryLoadSucceeds)
    /\ SF_vars(RootLock)
    /\ WF_vars(RootAssign)
    /\ WF_vars(RootUnlock)
    /\ WF_vars(CollectRead)
    /\ WF_vars(CollectUnlock)
    /\ WF_vars(CollectGetActionResult)

\* C27: every read and every write of the collector's Root, in LoadServices,
\* in Collect and in the helpers Collect calls, is made by a goroutine that
\* holds the mutex.
C27_RootAccessesHoldMutex == \A a \in fc.accesses : a.held

\* what LoadServices keeps true at every point
RetryInvariant ==
    /\ fc.loader.pc = "sleep" => (fc.Root = Nil /\ fc.assigns = 0)
    /\ fc.loader.pc = "done" => (fc.Root # Nil /\ fc.Root = fc.loader.root)
    /\ fc.assigns <= 1
    /\ fc.assigns = 0 => fc.Root = Nil
    /\ fc.assigns = 1 => (fc.Root # Nil /\ fc.Root = fc.loader.root)

\* C28: after a failed load LoadServices sleeps and tries again and has not
\* touched Root; it returns only after a load has succeeded; it assigns Root
\* once, to the tree of that load; and, loads succeeding in the end, Root
\* becomes non-nil and stays what it is.
C28_RetriesUntilSuccess ==
    /\ []RetryInvariant
    /\ [][fc.Root # Nil => fc'.Root = fc.Root]_vars
    /\ (fc.loader.pc = "sleep") ~> (fc.loader.pc = "load")
    /\ <>[](fc.Root # Nil /\ fc.loader.pc = "done")

\* LoadServices has returned after a load that failed and one that succeeded
C28_Witness ==
    /\ fc.loader.pc = "done"
    /\ fc.loader.attempts >= 2
    /\ fc.assigns = 1
    /\ fc.Root = Some(fc.loader.attempts)

--------------------------------------------------------------------------
\* the elements of the response named after an argument that have no text:
\* a start tag followed at once by its end tag
EmptyStarts ==
    {i \in ArgStarts : i + 1 <= Len(Toks) /\ Toks[i + 1].kind = "EndElement"}

TypeAt(i) == Deref(ArgAt(i).StateVariable).DataType

IntegerTypes == {"ui1", "ui2", "ui4", "i4"}

\* C31: an element without text is decoded from the empty string.  A parse
\* that returns a Result has met no such element of an integer-typed
\* variable, and holds "" for a string-typed and false for a boolean-typed
\* variable whose last element is empty; when the first element named after
\* an argument is empty and integer-typed the parse returns a decode error
\* and no Result.
C31_EmptyElementDecodedFromEmptyString ==
    /\ (parse.out # Nil /\ ParseOut.res # Nil) =>
          \A i \in EmptyStarts :
             /\ TypeAt(i) \notin IntegerTypes
             /\ VarNameAt(i) \in DOMAIN ParsedResult
             /\ (LastFor(i) = i /\ TypeAt(i) = "string") =>
                   ParsedResult[VarNameAt(i)] = [type |-> "string", v |-> <<>>]
             /\ (LastFor(i) = i /\ TypeAt(i) = "boolean") =>
                   ParsedResult[VarNameAt(i)] = [type |-> "bool", v |-> FALSE]
    /\ (parse.out # Nil /\ ArgStarts # {}) =>
          LET i == CHOOSE k \in ArgStarts : \A j \in ArgStarts : k <= j
          IN  (i \in EmptyStarts /\ ArgAt(i).StateVariable # Nil
               /\ TypeAt(i) \in IntegerTypes) =>
                 /\ ~ParseOut.panic
                 /\ ParseOut.res = Nil
                 /\ ParseOut.err # Nil
                 /\ Deref(ParseOut.err).kind = "decode"

\* a Result holds the entry of an element without text whose variable is
\* string- or boolean-typed
C31_Witness ==
    /\ parse.out # Nil
    /\ ParseOut.res # Nil
    /\ \E i \in EmptyStarts :
          /\ LastFor(i) = i
          /\ TypeAt(i) \in {"string", "boolean"}
          /\ VarNameAt(i) \in DOMAIN ParsedResult

--------------------------------------------------------------------------
(***************************************************************************)
(* test(), the -test mode of the exporter: after LoadServices it visits    *)
(* every action of every service in sorted order, prints its arguments,    *)
(* and calls the action when IsGetOnly says so.  T is the run: the actions *)
(* still to visit, the calls made, the actions left out.                   *)
(***************************************************************************)
MaxTestActions == 2
MaxTestArgs == 2

\* an action of a loaded service whose arguments have the directions dirs;
\* resolved tells whether the SCPD declares their related state variable
TestActionWith(dirs, resolved) ==
    FillAction(ActionWith(dirs),
               [dev |-> [root |-> "root", path |-> <<>>], idx |-> 1],
               IF resolved THEN <<SVar("Var", "string")>> ELSE <<>>)

TestActions ==
    UNION {{TestActionWith(dirs, r) : dirs \in [1..n -> Directions], r \in BOOLEAN}
              : n \in 0..MaxTestArgs}

\* a test() that calls every action it visits
TestVisit_CallsAll(T) ==
    IF T.todo = <<>> THEN [T EXCEPT !.pc = "done"]
    ELSE LET a == Head(T.todo)
         IN  IF \E i \in DOMAIN a.Arguments : a.Arguments[i].StateVariable = Nil
             THEN [T EXCEPT !.pc = "panic"]
             ELSE [T EXCEPT !.pc = "calling",
                            !.called = Append(T.called, [action |-> a, arg |-> Nil])]

\* the body of the loop over the actions up to a.Call(nil): printing
\* sv.DataType dereferences the StateVariable of every argument; an action
\* that is not IsGetOnly is left out
TestVisit(T) ==
    IF T.todo = <<>> THEN [T EXCEPT !.pc = "done"]
    ELSE LET a == Head(T.todo)
         IN  IF \E i \in DOMAIN a.Arguments : a.Arguments[i].StateVariable = Nil
             THEN [T EXCEPT !.pc = "panic"]
             ELSE IF ~IsGetOnly(a)
             THEN [T EXCEPT !.todo = Tail(T.todo),
                            !.skipped = Append(T.skipped, a)]
             ELSE [T EXCEPT !.pc = "calling",
                            !.called = Append(T.called, [action |-> a, arg |-> Nil])]

\* a.Call(nil) has returned: FAILED is printed or the results are, and the
\* loop goes on
TestCallReturned(T) == [T EXCEPT !.pc = "visit", !.todo = Tail(T.todo)]

TestVisitAction ==
    /\ test.pc = "visit"
    /\ test' = TestVisit(test)
    /\ UNCHANGED nonTestVars

TestCallReturns ==
    /\ test.pc = "calling"
    /\ test' = TestCallReturned(test)
    /\ UNCHANGED nonTestVars

TestInit ==
    /\ ld = IdleLoad
    /\ gets = <<>>
    /\ tree = NoTree
    /\ call = IdleCall
    /\ ncalls = 0
    /\ issued = <<>>
    /\ parse = NoParse
    /\ pure = NoPure
    /\ calls = NoCalls
    /\ fc = NoCollector
    /\ collect = NoCollect
    /\ \E n \in 0..MaxTestActions :
          \E as \in [1..n -> TestActions] :
             test = [pc |-> "visit", todo |-> as, called |-> <<>>, skipped |-> <<>>]

TestNext == TestVisitAction \/ TestCallReturns

SpecTest == TestInit /\ [][TestNext]_vars

\* C32: every action test() calls has no argument of direction "in" and at
\* least one argument, which is when IsGetOnly is true, and is called with
\* no argument.
C32_TestCallsOnlyGetOnlyActions ==
    \A k \in DOMAIN test.called :
       LET c == test.called[k]
       IN  /\ IsGetOnly(c.action)
           /\ Len(c.action.Arguments) >= 1
           /\ \A i \in DOMAIN c.action.Arguments :
                 c.action.Arguments[i].Direction # "in"
           /\ c.arg = Nil

\* test() has finished after calling one action and leaving out another
\* that has an input argument
C32_Witness ==
    /\ test.pc = "done"
    /\ Len(test.called) = 1
    /\ Len(test.skipped) = 1
    /\ \E i \in DOMAIN test.skipped[1].Arguments :
          test.skipped[1].Arguments[i].Direction = "in"

--------------------------------------------------------------------------
(***************************************************************************)
(* Collect of the collector configured from JSON, with GetActionResult and *)
(* ReportMetric.  C is the run: the Root read under the mutex, the metrics *)
(* and the index m of the one in turn, resultMap, the outcomes outs the    *)
(* device will give to the invocations of this step, and what has been     *)
(* observed: the actions invoked, the samples sent to ch, the metrics done *)
(* with the samples and errors of each, and the collectErrors counter.     *)
(***************************************************************************)
MaxScrapes == 2
MaxCollectMetrics == 2
\* the most invocations one metric makes: its provider action and the
\* indexed calls
MaxInvocations == 3

\* root.Services[service].Actions of the loaded Root
CollectServices == [s \in {"S"} |-> {"GetA", "GetCount"}]

ActArg(name, isIndex, provider, value) ==
    Some([Name |-> name, IsIndex |-> isIndex, ProviderAction |-> provider,
          Value |-> value])

MetricOf(service, action, arg, result) ==
    [Service |-> service, Action |-> action, ActionArgument |-> arg,
     Result |-> result, OkValue |-> <<"up">>]

\* the metrics a metrics file may configure
CollectMetrics ==
    {MetricOf("S", "GetA", Nil, "A"),
     MetricOf("S", "GetA", ActArg("NewIndex", FALSE, "", "0"), "A"),
     MetricOf("S", "GetA", ActArg("NewIndex", TRUE, "GetCount", "Count"), "B"),
     MetricOf("S", "GetA", ActArg("NewId", FALSE, "GetCount", "Count"), "A"),
     MetricOf("Missing", "GetA", Nil, "A")}

\* the value convertResult gives for text declared with data type dt
Decoded(dt, text) == Deref(convertResult(text, ArgOfType(dt)).val)

\* how action.Call may end: with no Result and an error, with a Result, or
\* in the nil pointer panic of convertResult on an argument whose state
\* variable the load left unresolved
CallFailed == [err |-> TRUE, res |-> EmptyMap, panic |-> FALSE]
CallResult(res) == [err |-> FALSE, res |-> res, panic |-> FALSE]
CallPanics == [err |-> FALSE, res |-> EmptyMap, panic |-> TRUE]

CallOutcomes == {"fails", "counts", "negative", "flag", "panics"}

CallOutcome(o) ==
    CASE o = "fails" -> CallFailed
      [] o = "panics" -> CallPanics
      [] o = "counts" ->
            CallResult(MapSet(MapSet(MapSet(EmptyMap,
               "A", Decoded("ui4", <<"5">>)),
               "B", Decoded("string", <<"up">>)),
               "Count", Decoded("ui2", <<"2">>)))
      [] o = "negative" ->
            CallResult(MapSet(MapSet(EmptyMap,
               "A", Decoded("i4", <<"-", "1">>)),
               "Count", Decoded("string", <<"x">>)))
      [] o = "flag" ->
            CallResult(MapSet(MapSet(MapSet(EmptyMap,
               "A", Decoded("boolean", <<"1">>)),
               "B", Decoded("string", <<"d", "o", "w", "n">>)),
               "Count", Decoded("ui2", <<"1">>)))

\* fmt.Sprintf("%v", value) of a value of a Result
Sprint(val) ==
    CASE val.type = "string" -> val.v
      [] val.type = "bool" -> IF val.v THEN <<"true">> ELSE <<"false">>
      [] val.type = "uint64" -> val.v
      [] val.type = "int64" -> (IF val.v.neg THEN <<"-">> ELSE <<>>) \o val.v.mag

\* mKey of GetActionResult: service, "|" and action and, for a call with
\* argument, "|", its name, "|" and the text of its value
KeyOf(service, action, arg) ==
    <<service, "|", action>> \o
        (IF arg = Nil THEN <<>> ELSE <<"|", Deref(arg).Name, "|">> \o Deref(arg).Value)

\* an action.Call whose outcome is remembered also when it is an error
ActionCalled_CachesFailure(C, key, o) ==
    LET C1 == [C EXCEPT !.outs = Tail(C.outs),
                        !.invoked = Append(C.invoked,
                                     [key |-> key, ok |-> ~o.err /\ ~o.panic,
                                      out |-> Head(C.outs)])]
    IN  IF o.panic THEN [C |-> [C1 EXCEPT !.pc = "panic"], res |-> Nil]
        ELSE [C |-> [C1 EXCEPT !.resultMap = MapSet(C.resultMap, key, o.res)],
              res |-> IF o.err THEN Nil ELSE Some(o.res)]

\* lines 229-235: action.Call ends as o; a Result is stored under the key, an
\* error is returned and not stored, a panic ends the Collect
ActionCalled(C, key, o) ==
    LET C1 == [C EXCEPT !.outs = Tail(C.outs),
                        !.invoked = Append(C.invoked,
                                     [key |-> key, ok |-> ~o.err /\ ~o.panic,
                                      out |-> Head(C.outs)])]
    IN  IF o.panic THEN [C |-> [C1 EXCEPT !.pc = "panic"], res |-> Nil]
        ELSE IF o.err THEN [C |-> C1, res |-> Nil]
        ELSE [C |-> [C1 EXCEPT !.resultMap = MapSet(C.resultMap, key, o.res)],
              res |-> Some(o.res)]

\* GetActionResult: the cached Result of the key, or an error when the
\* service or the action is missing, or the outcome of action.Call
ActionResult(C, service, action, arg) ==
    LET key == KeyOf(service, action, arg)
    IN  IF key \in DOMAIN C.resultMap
        THEN [C |-> C, res |-> Some(C.resultMap[key])]
        ELSE IF service \notin DOMAIN CollectServices
        THEN [C |-> C, res |-> Nil]
        ELSE IF action \notin CollectServices[service]
        THEN [C |-> C, res |-> Nil]
        ELSE ActionCalled(C, key, CallOutcome(Head(C.outs)))

\* collectErrors.Inc()
Inc(C) == [C EXCEPT !.collectErrors = @ + 1]

\* ch <- prometheus.MustNewConstMetric(m.Desc, m.MetricType, floatval, ...)
Emit(C, floatval) ==
    [C EXCEPT !.samples = Append(C.samples, [metric |-> C.m, value |-> floatval])]

\* ReportMetric: without the result name, or with a value that is neither
\* uint64, bool nor string, it counts an error; else it sends one sample
ReportMetric(C, metric, result) ==
    IF metric.Result \notin DOMAIN result THEN Inc(C)
    ELSE LET val == result[metric.Result]
         IN  CASE val.type = "uint64" -> Emit(C, val.v)
               [] val.type = "bool" -> Emit(C, IF val.v THEN <<"1">> ELSE <<"0">>)
               [] val.type = "string" ->
                     Emit(C, IF val.v = metric.OkValue THEN <<"1">> ELSE <<"0">>)
               [] OTHER -> Inc(C)

\* what follows a GetActionResult that returned r: an increment of
\* collectErrors for an error, ReportMetric for a Result
Reported(r, metric) ==
    IF r.C.pc = "panic" THEN r.C
    ELSE IF r.res = Nil THEN Inc(r.C)
    ELSE ReportMetric(r.C, metric, Deref(r.res))

\* GetActionResult and, when it gives a Result, ReportMetric
ResultReported(C, metric, arg) ==
    Reported(ActionResult(C, metric.Service, metric.Action, arg), metric)

\* the loop of an index argument from i on: one call per index below count
RECURSIVE IndexedFrom(_, _, _, _)
IndexedFrom(C, metric, i, count) ==
    IF i >= count \/ C.pc = "panic" THEN C
    ELSE IndexedFrom(ResultReported(C, metric,
                        Some([Name |-> Deref(metric.ActionArgument).Name,
                              Value |-> RenderNat(i)])),
                     metric, i + 1, count)

\* lines 281-303: the index argument whose count strconv.Atoi gave as n
Indexed(C, metric, n) ==
    IF n.err # NULL THEN Inc(C)
    ELSE IF n.val.neg THEN C
    ELSE IndexedFrom(C, metric, 0, NumeralValue(n.val.mag))

\* the body of the loop over the metrics for one that has an ActionArgument
\* whose value is the text value
WithArgument(C, metric, value) ==
    IF Deref(metric.ActionArgument).IsIndex
    THEN Indexed(C, metric, ParseInt(value))
    ELSE ResultReported(C, metric,
            Some([Name |-> Deref(metric.ActionArgument).Name, Value |-> value]))

\* lines 261-277: what follows the GetActionResult of the provider action
\* that returned prov
WithProvider(prov, metric) ==
    IF prov.C.pc = "panic" THEN prov.C
    ELSE IF prov.res = Nil THEN Inc(prov.C)
    ELSE IF Deref(metric.ActionArgument).Value \notin DOMAIN Deref(prov.res)
    THEN Inc(prov.C)
    ELSE WithArgument(prov.C, metric,
            Sprint(Deref(prov.res)[Deref(metric.ActionArgument).Value]))

\* the body of the loop over the metrics for the metric in turn
MetricDone(C) ==
    LET metric == C.metrics[C.m]
    IN  IF metric.ActionArgument = Nil THEN ResultReported(C, metric, Nil)
        ELSE IF Deref(metric.ActionArgument).ProviderAction = ""
        THEN WithArgument(C, metric, <<Deref(metric.ActionArgument).Value>>)
        ELSE WithProvider(ActionResult(C, metric.Service,
                             Deref(metric.ActionArgument).ProviderAction, Nil),
                          metric)

\* a Collect that runs its loop whether or not the Root is loaded
CollectEntered_IgnoresNil(C, root) ==
    LET E == [C EXCEPT !.scrape = @ + 1, !.root = root, !.resultMap = EmptyMap,
                       !.outs = <<>>, !.invoked = <<>>, !.samples = <<>>,
                       !.done = <<>>, !.errorsAtEntry = C.collectErrors]
    IN  IF C.metrics = <<>>
        THEN [E EXCEPT !.pc = "idle", !.m = 0]
        ELSE [E EXCEPT !.pc = "metric", !.m = 1]

\* Collect up to its loop: root read under the mutex, return when it is
\* nil, a new resultMap
CollectEntered(C, root) ==
    LET E == [C EXCEPT !.scrape = @ + 1, !.root = root, !.resultMap = EmptyMap,
                       !.outs = <<>>, !.invoked = <<>>, !.samples = <<>>,
                       !.done = <<>>, !.errorsAtEntry = C.collectErrors]
    IN  IF root = Nil \/ C.metrics = <<>>
        THEN [E EXCEPT !.pc = "idle", !.m = 0]
        ELSE [E EXCEPT !.pc = "metric", !.m = 1]

\* the end of a turn of the loop that took the run from C to D: on to the
\* next metric, out of Collect after the last; a panic leaves the Collect
\* where it happened
TurnDone(C, D) ==
    LET E == [D EXCEPT !.outs = <<>>,
                       !.done = Append(C.done,
                                   [metric |-> C.m,
                                    samples |-> Len(D.samples) - Len(C.samples),
                                    errors |-> D.collectErrors - C.collectErrors])]
    IN  IF D.pc = "panic" THEN E
        ELSE IF C.m >= Len(C.metrics) THEN [E EXCEPT !.pc = "idle"]
        ELSE [E EXCEPT !.m = C.m + 1]

\* the most invocations the metric makes: one without argument or with a
\* plain one, one more for a provider action, and for an index argument the
\* provider action's and one per index
Invocations(metric) ==
    IF metric.ActionArgument = Nil THEN 1
    ELSE IF Deref(metric.ActionArgument).IsIndex THEN MaxInvocations
    ELSE IF Deref(metric.ActionArgument).ProviderAction = "" THEN 1
    ELSE 2

\* one turn of the loop, the invocations ending as outs tells
CollectTurn(C, outs) == TurnDone(C, MetricDone([C EXCEPT !.outs = outs]))

CollectBegins ==
    /\ collect.pc = "idle"
    /\ collect.scrape < MaxScrapes
    /\ \E loaded \in (IF collect.root # Nil THEN {TRUE} ELSE BOOLEAN) :
          collect' = CollectEntered(collect, IF loaded THEN Some("root") ELSE Nil)
    /\ UNCHANGED nonCollectVars

CollectMetric ==
    /\ collect.pc = "metric"
    /\ \E outs \in [1..Invocations(collect.metrics[collect.m]) -> CallOutcomes] :
          collect' = CollectTurn(collect, outs)
    /\ UNCHANGED nonCollectVars

CollectInit ==
    /\ ld = IdleLoad
    /\ gets = <<>>
    /\ tree = NoTree
    /\ call = IdleCall
    /\ ncalls = 0
    /\ issued = <<>>
    /\ parse = NoParse
    /\ pure = NoPure
    /\ calls = NoCalls
    /\ fc = NoCollector
    /\ test = NoTest
    /\ \E n \in 0..MaxCollectMetrics :
          \E ms \in [1..n -> CollectMetrics] :
             collect = [NoCollect EXCEPT !.metrics = ms]

CollectNext == CollectBegins \/ CollectMetric

SpecCollect == CollectInit /\ [][CollectNext]_vars

--------------------------------------------------------------------------
\* C33: a Collect that reads a nil Root, the load not having succeeded yet,
\* returns at once: it sends no sample, invokes no action and leaves the
\* collectErrors counter as it found it.
C33_NothingBeforeLoad ==
    (collect.scrape > 0 /\ collect.root = Nil) =>
        /\ collect.pc = "idle"
        /\ collect.samples = <<>>
        /\ collect.invoked = <<>>
        /\ collect.done = <<>>
        /\ collect.collectErrors = collect.errorsAtEntry
        /\ collect.collectErrors = 0

\* a second Collect on a collector with metrics has run with the Root
\* still nil
C33_Witness ==
    /\ collect.scrape = MaxScrapes
    /\ collect.root = Nil
    /\ collect.metrics # <<>>
    /\ collect.pc = "idle"

--------------------------------------------------------------------------
\* the invocations of the running Collect that gave a Result
Succeeded == {i \in DOMAIN collect.invoked : collect.invoked[i].ok}

\* C34 as stated: within one Collect no key is invoked twice, the first
\* invocation having succeeded or failed.
C34_OneInvocationPerKey ==
    \A i, j \in DOMAIN collect.invoked :
        i < j => collect.invoked[i].key # collect.invoked[j].key

\* C34 amended: within one Collect a key is not invoked again once an
\* invocation of it has given a Result, and that Result is the one every
\* later metric with the key gets; an invocation that failed is not
\* remembered; and resultMap holds the Results of this Collect only, so it
\* starts empty on every Collect.
C34_OneResultPerKey ==
    /\ \A i, j \in DOMAIN collect.invoked :
          (i < j /\ collect.invoked[i].key = collect.invoked[j].key) =>
              ~collect.invoked[i].ok
    /\ DOMAIN collect.resultMap = {collect.invoked[i].key : i \in Succeeded}
    /\ \A i \in Succeeded :
          collect.resultMap[collect.invoked[i].key] =
              CallOutcome(collect.invoked[i].out).res

\* the second Collect has gone through two metrics with the same key: the
\* first one's invocation gave a Result and the second made none and sent a
\* sample too
C34_Witness ==
    /\ collect.scrape = MaxScrapes
    /\ collect.pc = "idle"
    /\ Len(collect.done) = MaxCollectMetrics
    /\ Len(collect.invoked) = 1
    /\ collect.invoked[1].ok
    /\ Len(collect.samples) = MaxCollectMetrics

--------------------------------------------------------------------------
(***************************************************************************)
(* Collect of the collector with hard-coded metrics.  The run keeps, next  *)
(* to what the configured one keeps, the locals last_service, last_method  *)
(* and last_result.                                                        *)
(***************************************************************************)
\* the metrics as declared: one action of a service, then two metrics in a
\* row on another action of the same service
HardCodedMetrics ==
    <<MetricOf("S", "GetCount", Nil, "Count"),
      MetricOf("S", "GetA", Nil, "A"),
      MetricOf("S", "GetA", Nil, "B")>>

\* Collect up to its loop: root read under the mutex, return when it is
\* nil, the three locals at their zero values
HardCodedEntered(C, root) ==
    LET E == [C EXCEPT !.scrape = @ + 1, !.root = root,
                       !.last = [service |-> "", method |-> "", result |-> EmptyMap],
                       !.outs = <<>>, !.invoked = <<>>, !.samples = <<>>,
                       !.done = <<>>, !.errorsAtEntry = C.collectErrors]
    IN  IF root = Nil
        THEN [E EXCEPT !.pc = "idle", !.m = 0]
        ELSE [E EXCEPT !.pc = "metric", !.m = 1]

\* the rest of a turn of the loop, from the lookup of the result name in
\* last_result on
HardCodedReport(C, metric) ==
    IF metric.Result \notin DOMAIN C.last.result THEN Inc(C)
    ELSE LET val == C.last.result[metric.Result]
         IN  CASE val.type = "uint64" -> Emit(C, val.v)
               [] val.type = "bool" -> Emit(C, IF val.v THEN <<"1">> ELSE <<"0">>)
               [] val.type = "string" ->
                     Emit(C, IF val.v = metric.OkValue THEN <<"1">> ELSE <<"0">>)
               [] OTHER -> Inc(C)

\* lines 537-542: action.Call ends as o and is assigned to last_result
HardCodedCalled(C, metric, o) ==
    LET called == [C EXCEPT !.outs = Tail(C.outs),
                            !.invoked = Append(C.invoked,
                                [key |-> KeyOf(metric.Service, metric.Action, Nil),
                                 ok |-> ~o.err /\ ~o.panic, out |-> Head(C.outs),
                                 metric |-> C.m]),
                            !.last.result = o.res]
    IN  IF o.panic THEN [called EXCEPT !.pc = "panic"]
        ELSE IF o.err THEN Inc(called)
        ELSE HardCodedReport(called, metric)

\* the body of the loop for the metric in turn: the action is called when
\* the metric's service or action differs from last_service or last_method,
\* which nothing assigns
HardCodedMetricDone(C) ==
    LET metric == C.metrics[C.m]
    IN  IF metric.Service # C.last.service \/ metric.Action # C.last.method
        THEN IF metric.Service \notin DOMAIN CollectServices THEN C
             ELSE IF metric.Action \notin CollectServices[metric.Service] THEN C
             ELSE HardCodedCalled(C, metric, CallOutcome(Head(C.outs)))
        ELSE HardCodedReport(C, metric)

\* one turn of the loop, the invocation ending as out tells
HardCodedTurn(C, out) ==
    TurnDone(C, HardCodedMetricDone([C EXCEPT !.outs = <<out>>]))

HardCodedBegins ==
    /\ collect.pc = "idle"
    /\ collect.scrape < MaxScrapes
    /\ \E loaded \in (IF collect.root # Nil THEN {TRUE} ELSE BOOLEAN) :
          collect' = HardCodedEntered(collect, IF loaded THEN Some("root") ELSE Nil)
    /\ UNCHANGED nonCollectVars

HardCodedMetric ==
    /\ collect.pc = "metric"
    /\ \E out \in CallOutcomes : collect' = HardCodedTurn(collect, out)
    /\ UNCHANGED nonCollectVars

HardCodedInit ==
    /\ ld = IdleLoad
    /\ gets = <<>>
    /\ tree = NoTree
    /\ call = IdleCall
    /\ ncalls = 0
    /\ issued = <<>>
    /\ parse = NoParse
    /\ pure = NoPure
    /\ calls = NoCalls
    /\ fc = NoCollector
    /\ test = NoTest
    /\ collect = [NoCollect EXCEPT !.metrics = HardCodedMetrics]

HardCodedNext == HardCodedBegins \/ HardCodedMetric

SpecHardCoded == HardCodedInit /\ [][HardCodedNext]_vars

\* two metrics in a row name the same service and action
SameAction(m1, m2) == m1.Service = m2.Service /\ m1.Action = m2.Action

\* C35: in the collector with hard-coded metrics the action of a run of
\* metrics that name the same service and action is called once for the run:
\* no metric invokes the action when the metric before it names the same
\* service and action and was served by a successful invocation.
C35_OneCallPerRun ==
    \A k \in DOMAIN collect.invoked :
        LET m == collect.invoked[k].metric
        IN  (m > 1 /\ SameAction(collect.metrics[m], collect.metrics[m - 1])) =>
                ~\E j \in DOMAIN collect.invoked :
                    /\ collect.invoked[j].metric = m - 1
                    /\ collect.invoked[j].ok

--------------------------------------------------------------------------
\* the metrics the running Collect has gone through that have no index
\* argument
DoneWithoutIndex ==
    {i \in DOMAIN collect.done :
        LET metric == collect.metrics[collect.done[i].metric]
        IN  metric.ActionArgument = Nil \/ ~Deref(metric.ActionArgument).IsIndex}

\* C36: a metric without index argument that a Collect on a loaded Root has
\* gone through has yielded one sample and no error, or one increment of
\* collectErrors and no sample, never both and never neither.
C36_SampleXorError ==
    \A i \in DoneWithoutIndex :
        \/ collect.done[i].samples = 1 /\ collect.done[i].errors = 0
        \/ collect.done[i].samples = 0 /\ collect.done[i].errors = 1

\* the metric was served the Result that resultMap holds for key: no
\* invocation of the key has failed in the running Collect
Served(key) ==
    /\ key \in DOMAIN collect.resultMap
    /\ \A k \in DOMAIN collect.invoked :
          collect.invoked[k].key = key => collect.invoked[k].ok

\* C37: a metric without argument whose action call succeeded and whose
\* result name is in the Result yields a sample, whatever the type the value
\* was decoded to.
C37_SampleForEveryType ==
    \A i \in DOMAIN collect.done :
        LET metric == collect.metrics[collect.done[i].metric]
            key == KeyOf(metric.Service, metric.Action, Nil)
        IN  (/\ metric.ActionArgument = Nil
             /\ Served(key)
             /\ metric.Result \in DOMAIN collect.resultMap[key]) =>
                collect.done[i].samples = 1

--------------------------------------------------------------------------
\* the heap the finished load leaves, as a Call sees it
TreeOfLoad ==
    [roots |-> ld.roots, svcs |-> ld.svcs, devRoot |-> ld.devRoot,
     root |-> LoadRet.root]

\* C38: after a successful load, the Root that a Service of the returned
\* service map reaches through its Device, the secondary Root for a service
\* of the secondary tree, has the base URL, username and password of the
\* returned Root, and the request of each of its actions goes to the
\* returned Root's base URL followed by the service's control URL.
C38_ServicesReachSameSettings ==
    LoadSucceeded =>
       \A k \in DOMAIN RootServices :
          LET s == ld.svcs[RootServices[k]]
              returned == ld.roots[Deref(LoadRet.root)]
          IN  /\ s.Device # Nil
              /\ Deref(s.Device) \in DOMAIN ld.devRoot
              /\ ld.devRoot[Deref(s.Device)] = RootServices[k].dev.root
              /\ ld.roots[ld.devRoot[Deref(s.Device)]].BaseUrl = returned.BaseUrl
              /\ ld.roots[ld.devRoot[Deref(s.Device)]].Username = returned.Username
              /\ ld.roots[ld.devRoot[Deref(s.Device)]].Password = returned.Password
              /\ \A an \in DOMAIN Deref(s.Actions) :
                    createCallHttpRequest(TreeOfLoad, Deref(s.Actions)[an], <<>>).url
                       = returned.BaseUrl \o s.ControlUrl

\* a load with username and password has returned a map that holds a
\* service with actions of the secondary tree next to one of the primary
C38_Witness ==
    /\ LoadSucceeded
    /\ ld.roots["root"].Username # ""
    /\ ld.roots["root"].Password # ""
    /\ \E k \in DOMAIN RootServices :
          /\ RootServices[k].dev.root = "rootTr64"
          /\ DOMAIN Deref(ld.svcs[RootServices[k]].Actions) # {}
    /\ \E k \in DOMAIN RootServices : RootServices[k].dev.root = "root"

==========================================================================
